---------------------------- MODULE Spec2Model ----------------------------
(***************************************************************************)
(* A model of the Bezier kernel of blenderbezierutils.py: the spatial      *)
(* hit-tester (getClosestPt2d / search2dFromPtsList) and the curve         *)
(* topology operations (joinSegs, reverseCurve, insertBezierPts,           *)
(* removeBezierPts) with the evaluator functions they call.                *)
(*                                                                         *)
(* Conventions.                                                            *)
(*  - Python lists are sequences; Python indices are 0-based and are kept  *)
(*    0-based in every value the source stores or returns (category        *)
(*    numbers, point indices, spline indices); At(s, i) reads s[i].        *)
(*  - A vector is a tuple of integers: <<x, y, z>> where the evaluator     *)
(*    works on it (the evaluator reads three coordinates), <<x, y>> for    *)
(*    curves laid out in the plane z = 0 and for screen positions. In      *)
(*    curve space one unit is 0.00005, so DEF_ERR_MARGIN = 0.0001 is 2     *)
(*    units. In screen space one unit is one pixel.                        *)
(*  - A curve object's matrix_world is a translation, given by its offset. *)
(*  - bpy's BezierSplinePoint is a record of its five fields; assigning a  *)
(*    field stores the value (handle recalculation by the host             *)
(*    application is not part of this program).                            *)
(***************************************************************************)
EXTENDS Integers, Sequences, FiniteSets, TLC

VARIABLES
    searchPtsList,  \* getClosestPt2d: the candidate lists, by category
    coFind,         \* getClosestPt2d: the cursor position
    searchResult,   \* getClosestPt2d: "pending", None or the chosen sr
    curves,         \* the curve objects of the scene (bpy.data.objects)
    orig,           \* the curve objects before the first call
    call,           \* the last call made on the curves and its arguments
    ret             \* what that call returned, or "raised"

vars == <<searchPtsList, coFind, searchResult, curves, orig, call, ret>>

None == "None"

At(s, i) == s[i + 1]

Last(s) == s[Len(s)]

Abs(x) == IF x < 0 THEN -x ELSE x

Range(s) == {s[i] : i \in 1..Len(s)}

RECURSIVE SumSeq(_)
SumSeq(s) == IF s = <<>> THEN 0 ELSE s[1] + SumSeq(Tail(s))

VAdd(a, b) == [i \in 1..Len(a) |-> a[i] + b[i]]

VSub(a, b) == [i \in 1..Len(a) |-> a[i] - b[i]]

\* The squared length of a vector: the source compares lengths only with
\* each other or with a bound, and squaring keeps the order of lengths.
Len2(v) == SumSeq([i \in 1..Len(v) |-> v[i] * v[i]])

\* All sequences over S of length at most n.
SeqsUpTo(S, n) == UNION {[1..k -> S] : k \in 0..n}

\* All orders in which the elements of the finite set S can be listed.
Orders(S) ==
    {f \in [1..Cardinality(S) -> S] : \A i, j \in DOMAIN f : i # j => f[i] # f[j]}

(***************************************************************************)
(* Spatial hit-tester                                                      *)
(***************************************************************************)

\* Bounds of the hit-test inputs.
MaxCands == 3

\* searchRange = 20 in the call of search2dFromPtsList.
SearchRange == 20

ScreenPts == {<<2, 0>>, <<0, 10>>, <<12, 16>>, <<21, 0>>}

Cursors == {<<0, 0>>, <<2, 0>>}

\* The categories, as indices of searchPtsList and retStr:
\* 0 'SelHandles', 1 'CurveBezPt', 2 'SegLoc', 3 'CurveLoc'.
Categories == 0..3

RetStr == <<"SelHandles", "CurveBezPt", "SegLoc", "CurveLoc", "", "">>

\* The points of category c among the tagged candidates cs, in order.
RECURSIVE PtsOfCat(_, _)
PtsOfCat(cs, c) ==
    IF cs = <<>> THEN <<>>
    ELSE (IF cs[1][1] = c THEN <<cs[1][2]>> ELSE <<>>) \o PtsOfCat(Tail(cs), c)

\* searchPtsList as getClosestPt2d builds it: six lists, the last two empty.
MakePtsList(cs) == [i \in 1..6 |-> IF i <= 4 THEN PtsOfCat(cs, i - 1) ELSE <<>>]

\* findListIdx: the index of the list that holds flat index idx, given the
\* lists' lengths. Reading past the end of counts is Python's IndexError.
RECURSIVE findListIdxFrom(_, _, _, _)
findListIdxFrom(counts, idx, cumulCnt, cntIdx) ==
    IF idx >= cumulCnt
    THEN IF cntIdx >= Len(counts) THEN "IndexError"
         ELSE findListIdxFrom(counts, idx, cumulCnt + At(counts, cntIdx), cntIdx + 1)
    ELSE cntIdx - 1

findListIdx(counts, idx) == findListIdxFrom(counts, idx, 0, 0)

\* The flat list of the points inserted in the k-d tree, in insertion order;
\* the flat index of a point is its position (0-based).
RECURSIVE FlatPts(_)
FlatPts(ptsList) ==
    IF ptsList = <<>> THEN <<>> ELSE ptsList[1] \o FlatPts(Tail(ptsList))

\* kd.find_range(coFind, searchRange): the flat indices of the points whose
\* distance from coFind is at most searchRange.
FindRangeIdxs(ptsList, co, searchRange) ==
    LET flat == FlatPts(ptsList) IN
    {i \in 0..(Len(flat) - 1) : Len2(VSub(At(flat, i), co)) <= searchRange * searchRange}

\* sorted(foundVals, key = dist): Python's sort is stable.
RECURSIVE InsertByDist(_, _)
InsertByDist(sorted, fv) ==
    IF sorted = <<>> THEN <<fv>>
    ELSE IF fv.dist < sorted[1].dist THEN <<fv>> \o sorted
    ELSE <<sorted[1]>> \o InsertByDist(Tail(sorted), fv)

RECURSIVE SortedByDist(_)
SortedByDist(fvs) ==
    IF fvs = <<>> THEN <<>>
    ELSE InsertByDist(SortedByDist(SubSeq(fvs, 1, Len(fvs) - 1)), Last(fvs))

\* search2dFromPtsList. kdOrder is the order in which find_range reports the
\* points in range (the k-d tree does not specify it). A search result is
\* [listIdx, ptIdxInList, co, dist] in the source; dist is kept squared.
search2dFromPtsList(ptsList, co, searchRange, kdOrder) ==
    LET flat == FlatPts(ptsList)
        counts == [i \in 1..Len(ptsList) |-> Len(ptsList[i])]
        foundVals == [k \in 1..Len(kdOrder) |->
                        [co |-> At(flat, kdOrder[k]), idx |-> kdOrder[k],
                         dist |-> Len2(VSub(At(flat, kdOrder[k]), co))]]
        sortedVals == SortedByDist(foundVals)
    IN  [k \in 1..Len(sortedVals) |->
            LET listIdx == findListIdx(counts, sortedVals[k].idx) IN
            [listIdx |-> listIdx,
             ptIdxInList |-> sortedVals[k].idx
                               - SumSeq([i \in 1..listIdx |-> Len(ptsList[i])]),
             co |-> sortedVals[k].co,
             dist |-> sortedVals[k].dist]]

\* min(srs, key = lambda x: x[3]): the first element of srs of least dist.
RECURSIVE MinByDist(_)
MinByDist(srs) ==
    IF Len(srs) = 1 THEN srs[1]
    ELSE LET m == MinByDist(Tail(srs)) IN
         IF m.dist < srs[1].dist THEN m ELSE srs[1]

\* The order of the tuples (x[0], x[3]).
LessCatDist(a, b) ==
    a.listIdx < b.listIdx \/ (a.listIdx = b.listIdx /\ a.dist < b.dist)

\* min(srs, key = lambda x: (x[0], x[3])): the first element of least key.
RECURSIVE MinByCatDist(_)
MinByCatDist(srs) ==
    IF Len(srs) = 1 THEN srs[1]
    ELSE LET m == MinByCatDist(Tail(srs)) IN
         IF LessCatDist(m, srs[1]) THEN m ELSE srs[1]

\* A mutant of ChooseSr: the closest result wins whatever its category.
ChooseSrNoPriority(srs) == MinByDist(srs)

\* getClosestPt2d, lines 2679-2683: the closest result, and when that one is
\* an interior point (category 2 or 3) the result least by (category, dist).
ChooseSr(srs) ==
    LET sr == MinByDist(srs) IN
    IF sr.listIdx > 1 THEN MinByCatDist(srs) ELSE sr

\* What getClosestPt2d returns: None, or the search result it chose.
NoMatch == [tag |-> "None"]

Match(sr) == [tag |-> "sr", sr |-> sr]

\* A mutant of getClosestPt2d: a single result in range is dropped.
getClosestPt2dDropsSingle(ptsList, co, kdOrder) ==
    LET srs == search2dFromPtsList(ptsList, co, SearchRange, kdOrder) IN
    IF Len(srs) <= 1 THEN NoMatch ELSE Match(ChooseSr(srs))

\* getClosestPt2d from the candidate lists on (lines 2674-2683).
getClosestPt2d(ptsList, co, kdOrder) ==
    LET srs == search2dFromPtsList(ptsList, co, SearchRange, kdOrder) IN
    IF Len(srs) = 0 THEN NoMatch ELSE Match(ChooseSr(srs))

\* The state in which no hit test is in progress.
NoSearch ==
    /\ searchPtsList = MakePtsList(<<>>)
    /\ coFind = <<0, 0>>
    /\ searchResult = [tag |-> "idle"]

\* The state in which no curve operation is under way.
NoCurves ==
    /\ curves = <<>>
    /\ orig = <<>>
    /\ call = [op |-> "none"]
    /\ ret = None

\* A call of getClosestPt2d: the candidate lists of the four categories, in
\* screen space, and the cursor.
InitLocate ==
    /\ \E cs \in SeqsUpTo(Categories \X ScreenPts, MaxCands) :
          searchPtsList = MakePtsList(cs)
    /\ coFind \in Cursors
    /\ searchResult = [tag |-> "pending"]
    /\ NoCurves

\* getClosestPt2d runs from line 2674 on; find_range reports the points in
\* range in some order.
Locate ==
    /\ searchResult.tag = "pending"
    /\ \E kdOrder \in Orders(FindRangeIdxs(searchPtsList, coFind, SearchRange)) :
          searchResult' = getClosestPt2d(searchPtsList, coFind, kdOrder)
    /\ UNCHANGED <<searchPtsList, coFind, curves, orig, call, ret>>

NextLocate == Locate

SpecLocate == InitLocate /\ [][NextLocate]_vars

----------------------------------------------------------------------------
\* Claims about the hit-tester.

\* The candidates in range, as [listIdx, dist] for each flat index.
InRange ==
    LET flat == FlatPts(searchPtsList)
        counts == [i \in 1..6 |-> Len(searchPtsList[i])]
    IN  {[listIdx |-> findListIdx(counts, i),
          ptIdxInList |-> i - SumSeq([k \in 1..findListIdx(counts, i) |->
                                        Len(searchPtsList[k])]),
          co |-> At(flat, i),
          dist |-> Len2(VSub(At(flat, i), coFind))] :
            i \in FindRangeIdxs(searchPtsList, coFind, SearchRange)}

Closest == {c \in InRange : \A d \in InRange : c.dist <= d.dist}

LeastKey == {c \in InRange : \A d \in InRange : ~LessCatDist(d, c)}

Located == searchResult.tag \in {"None", "sr"}

Found == searchResult.tag = "sr"

\* C1: the two-stage rule. When every closest candidate in range is a handle
\* or an anchor (category 0 or 1) the match is one of them; when every closest
\* candidate is an interior point (category 2 or 3) the match is a candidate
\* of least (category, distance) key; in every case the match is one or the
\* other. With cursor (0,0), a handle at (0,10) and an other-curve interior
\* point at (2,0), radius 20, the handle is the match.
C1_TwoStage ==
    Found =>
        LET sr == searchResult.sr IN
        /\ sr \in InRange
        /\ \/ sr \in Closest /\ sr.listIdx <= 1
           \/ sr \in LeastKey /\ \E c \in Closest : c.listIdx > 1
        /\ (\A c \in Closest : c.listIdx <= 1) => sr \in Closest
        /\ (\A c \in Closest : c.listIdx > 1) => sr \in LeastKey
        /\ ( /\ coFind = <<0, 0>>
             /\ searchPtsList = MakePtsList(<< <<0, <<0, 10>> >>, <<3, <<2, 0>> >> >>) )
           => /\ sr.listIdx = 0
              /\ sr.co = <<0, 10>>

\* C1 witness: the closest candidate is interior and a farther handle wins.
C1_Witness ==
    /\ Found
    /\ coFind = <<0, 0>>
    /\ searchPtsList = MakePtsList(<< <<0, <<0, 10>> >>, <<3, <<2, 0>> >> >>)
    /\ searchResult.sr.listIdx = 0

\* C2: when candidates of different categories are the closest in range, at
\* the same distance, the match is the one of the highest-priority category
\* (the least category number), in whatever order the index reports them.
C2_TieByPriority ==
    Found => \A c \in Closest : searchResult.sr.listIdx <= c.listIdx

C3_WitnessMatch ==
    /\ Found
    /\ Cardinality(InRange) >= 2

(***************************************************************************)
(* Curve data: Bezier points, splines, curve objects                       *)
(***************************************************************************)

\* DEF_ERR_MARGIN = 0.0001, in units of 0.00005.
DEF_ERR_MARGIN == 2

floatCmpWithMargin(float1, float2) == Abs(float1 - float2) < DEF_ERR_MARGIN

vectCmpWithMargin(v1, v2) ==
    \A i \in 1..Len(v1) : floatCmpWithMargin(v1[i], v2[i])

HandleKinds == {"FREE", "VECTOR", "ALIGNED", "AUTO"}

BezPt(hl, co, hr, lt, rt) ==
    [handle_left |-> hl, co |-> co, handle_right |-> hr,
     handle_left_type |-> lt, handle_right_type |-> rt]

\* The point that bezier_points.add() and splines.new('BEZIER') create.
DefaultPt == BezPt(<<0, 0>>, <<0, 0>>, <<0, 0>>, "FREE", "FREE")

\* splines.new('BEZIER'): a spline of one point, not cyclic.
NewSpline == [bezier_points |-> <<DefaultPt>>, use_cyclic_u |-> FALSE]

\* bezier_points.add(count), for count >= 0.
AddPts(pts, count) == pts \o [i \in 1..count |-> DefaultPt]

\* s with its element of (0-based) index i replaced by v.
SetAt(s, i, v) == [s EXCEPT ![i + 1] = v]

\* A mutant of RemoveAt: the first element is removed, whatever i is.
RemoveAtFirst(s, i) == Tail(s)

\* s without its element of (0-based) index i.
RemoveAt(s, i) == SubSeq(s, 1, i) \o SubSeq(s, i + 2, Len(s))

Reversed(s) == [i \in 1..Len(s) |-> s[Len(s) + 1 - i]]

\* mw @ v and mw.inverted() @ v for the translation mw.
ToWorld(mw, v) == VAdd(v, mw)

FromWorld(mw, v) == VSub(v, mw)

NoMW == <<0, 0>>

\* copyBezierPt(src, target, freeHandles), with identity matrices: the target.
copyBezierPt(src, freeHandles) ==
    BezPt(src.handle_left, src.co, src.handle_right,
          IF freeHandles THEN "FREE" ELSE src.handle_left_type,
          IF freeHandles THEN "FREE" ELSE src.handle_right_type)

\* copyObjAttr(src, dest, invDestMW, mw) on two Bezier points: dest afterwards.
\* destMW is the translation whose inverse is invDestMW.
copyObjAttr(src, destMW, mw) ==
    BezPt(FromWorld(destMW, ToWorld(mw, src.handle_left)),
          FromWorld(destMW, ToWorld(mw, src.co)),
          FromWorld(destMW, ToWorld(mw, src.handle_right)),
          src.handle_left_type, src.handle_right_type)

\* copyObjAttr(src, dest) on two splines: the attributes that can be set are
\* copied (use_cyclic_u), bezier_points is read-only and stays dest's own.
copySplineAttr(src, dest) == [dest EXCEPT !.use_cyclic_u = src.use_cyclic_u]

\* addLastSeg(spline): a cyclic spline is opened, a copy of its first point
\* becoming its last point.
addLastSeg(spline) ==
    IF spline.use_cyclic_u
    THEN [bezier_points |-> AddPts(spline.bezier_points, 0)
                              \o <<copyObjAttr(spline.bezier_points[1], NoMW, NoMW)>>,
          use_cyclic_u |-> FALSE]
    ELSE spline

\* A mutant of the point copy of reverseCurve: the handle kinds stay put.
ReversedPtKeepsKinds(p) ==
    BezPt(p.handle_right, p.co, p.handle_left,
          p.handle_left_type, p.handle_right_type)

\* reverseCurve, lines 207-214: the copy of point p in the reversed spline.
ReversedPt(p) ==
    BezPt(p.handle_right, p.co, p.handle_left,
          p.handle_right_type, p.handle_left_type)

\* reverseCurve, lines 203-214: the reversed copy of spline s.
ReversedSpline(s) ==
    LET ns == copySplineAttr(s, NewSpline)
        pts == AddPts(ns.bezier_points, Len(s.bezier_points) - 1)
        rev == Reversed(s.bezier_points)
    IN  [ns EXCEPT !.bezier_points = [i \in 1..Len(pts) |-> ReversedPt(rev[i])]]

\* reverseCurve(curve): the curve object afterwards.
reverseCurve(curve) ==
    LET cp == curve.splines
        rs == Reversed(cp)
    IN  [curve EXCEPT !.splines = [i \in 1..Len(rs) |-> ReversedSpline(rs[i])]]

\* The elements of s whose (0-based) index is not in idxs, in order.
RECURSIVE KeptFrom(_, _, _)
KeptFrom(s, idxs, i) ==
    IF i >= Len(s) THEN <<>>
    ELSE (IF i \in idxs THEN <<>> ELSE <<At(s, i)>>) \o KeptFrom(s, idxs, i + 1)

Kept(s, idxs) == KeptFrom(s, idxs, 0)

\* The least element of a non-empty set of integers.
Min(S) == CHOOSE x \in S : \A y \in S : x <= y

\* What bezier_points.add(count) does with a negative count is decided by
\* bpy, not by this program: the count is clamped to 0, or the call raises.
NegAddOutcomes == {"clamp", "raise"}

\* A mutant of createSpline: the new spline is never marked cyclic.
createSplineNotCyclic(splines, srcSpline, forceNoncyclic, freeHandles, excludePtIdxs, negAdd) ==
    LET kept == Kept(srcSpline.bezier_points, excludePtIdxs) IN
    [splines |-> Append(splines,
                    [bezier_points |-> [i \in 1..Len(kept) |-> copyBezierPt(kept[i], freeHandles)],
                     use_cyclic_u |-> FALSE]),
     raised |-> FALSE]

\* createSpline(curveData, srcSpline, forceNoncyclic, freeHandles,
\* excludePtIdxs): the splines of curveData afterwards, the new spline last,
\* and whether the call raised (leaving what it had done so far).
createSpline(splines, srcSpline, forceNoncyclic, freeHandles, excludePtIdxs, negAdd) ==
    LET src == srcSpline.bezier_points
        count == Len(src) - Cardinality(excludePtIdxs) - 1
        kept == Kept(src, excludePtIdxs)
        cyclic == IF forceNoncyclic THEN FALSE ELSE srcSpline.use_cyclic_u
        pts0 == AddPts(NewSpline.bezier_points, IF count < 0 THEN 0 ELSE count)
        \* the copy loop, up to the first index past the end of the new spline
        copied == [i \in 1..Len(pts0) |->
                     IF i <= Len(kept) THEN copyBezierPt(kept[i], freeHandles)
                     ELSE pts0[i]]
        closing == IF forceNoncyclic /\ srcSpline.use_cyclic_u
                   THEN <<copyBezierPt(src[1], freeHandles)>> ELSE <<>>
    IN  IF count < 0 /\ negAdd = "raise"
        THEN [splines |-> Append(splines, NewSpline), raised |-> TRUE]
        ELSE IF Len(kept) > Len(pts0)
        THEN [splines |-> Append(splines, [bezier_points |-> copied,
                                           use_cyclic_u |-> cyclic]),
              raised |-> TRUE]
        ELSE [splines |-> Append(splines, [bezier_points |-> copied \o closing,
                                           use_cyclic_u |-> cyclic]),
              raised |-> FALSE]

\* removeBezierPts, lines 233-236: each spline that followed the rebuilt one is
\* copied to the end and removed, cnt times.
RECURSIVE RotateSplines(_, _, _)
RotateSplines(splines, nextIdx, cnt) ==
    IF cnt <= 0 THEN splines
    ELSE LET oldSpline == At(splines, nextIdx)
             made == createSpline(splines, oldSpline, FALSE, FALSE, {}, "clamp")
         IN  RotateSplines(RemoveAt(made.splines, nextIdx), nextIdx, cnt - 1)

\* What a call on a curve object leaves: the objects of the scene (the object
\* itself, or nothing when it was removed) and how the call ended.
Outcome(objs, how) == [curves |-> objs, ret |-> how]

\* removeBezierPts(obj, splineIdx, removePtIdxs).
removeBezierPts(obj, splineIdx, removePtIdxs, negAdd) ==
    LET splines == obj.splines
        oldSpline == At(splines, splineIdx)
        bpts == oldSpline.bezier_points
    IN  IF removePtIdxs = {} THEN Outcome(<<obj>>, "raised")   \* min() of nothing
        ELSE IF Min(removePtIdxs) >= Len(bpts) THEN Outcome(<<obj>>, "returned")
        ELSE IF Len(bpts) = 1 /\ 0 \in removePtIdxs
        THEN LET rest == RemoveAt(splines, splineIdx) IN
             IF Len(rest) = 0 THEN Outcome(<<>>, "returned")   \* safeRemoveObj(obj)
             ELSE Outcome(<<[obj EXCEPT !.splines = rest]>>, "returned")
        ELSE LET made == createSpline(splines, oldSpline, FALSE, FALSE, removePtIdxs, negAdd) IN
             IF made.raised
             THEN Outcome(<<[obj EXCEPT !.splines = made.splines]>>, "raised")
             ELSE LET removed == RemoveAt(made.splines, splineIdx)
                      splineCnt == Len(removed)
                  IN  Outcome(<<[obj EXCEPT !.splines =
                                   RotateSplines(removed, splineIdx, splineCnt - 1 - splineIdx)]>>,
                              "returned")

(***************************************************************************)
(* Curve objects the operations are called on                              *)
(***************************************************************************)

\* Bounds of the curves: points in a spline, splines in a curve object.
MaxPts == 3

MaxSplines == 2

CurveObj(name, mw, splines) ==
    [name |-> name, matrix_world |-> mw, splines |-> splines]

\* A point of spline s (0-based) at position j (0-based), with anchor co: its
\* handles lie beside the anchor, at offsets that tell the points apart.
MakePt(co, s, j, lt, rt) ==
    BezPt(VSub(co, <<3 + j, 1 + s>>), co, VAdd(co, <<4 + j, 2 + s>>), lt, rt)

\* A spline of n points laid out along a row, one row for each spline index.
RowSpline(s, n, cyclic, lt, rt) ==
    [bezier_points |-> [i \in 1..n |-> MakePt(<<20 * (i - 1), 40 * s>>, s, i - 1, lt, rt)],
     use_cyclic_u |-> cyclic]

\* The shapes of a curve: for each spline its point count and cyclic flag.
Shapes == UNION {[1..k -> (1..MaxPts) \X BOOLEAN] : k \in 1..MaxSplines}

RowCurve(shape, lt, rt) ==
    CurveObj("curve", <<0, 0>>,
             [k \in 1..Len(shape) |-> RowSpline(k - 1, shape[k][1], shape[k][2], lt, rt)])

(***************************************************************************)
(* reverseCurve called repeatedly on one curve                             *)
(***************************************************************************)

\* Bound on the number of calls of reverseCurve in a run.
MaxReverse == 2

InitReverse ==
    /\ \E shape \in Shapes, lt \in HandleKinds, rt \in HandleKinds :
          curves = <<RowCurve(shape, lt, rt)>>
    /\ orig = curves
    /\ call = [op |-> "reverseCurve", n |-> 0]
    /\ ret = None
    /\ NoSearch

Reverse ==
    /\ call.n < MaxReverse
    /\ curves' = <<reverseCurve(curves[1])>>
    /\ call' = [call EXCEPT !.n = @ + 1]
    /\ UNCHANGED <<orig, ret, searchPtsList, coFind, searchResult>>

NextReverse == Reverse

SpecReverse == InitReverse /\ [][NextReverse]_vars

\* C6: after an even number of calls of reverseCurve the curve is exactly the
\* original (splines, points, anchors, handles and handle kinds); after an
\* odd number its splines are in reverse order and, in each, point n-1-i is
\* at position i with left and right handle positions and kinds swapped.
C6_ReverseTwice ==
    LET c == curves[1]
        o == orig[1]
        m == Len(o.splines)
    IN  /\ call.n % 2 = 0 => curves = orig
        /\ call.n % 2 = 1 =>
             /\ Len(c.splines) = m
             /\ \A k \in 1..m :
                  LET ns == c.splines[k]
                      s == o.splines[m + 1 - k]
                      n == Len(s.bezier_points)
                  IN  /\ ns.use_cyclic_u = s.use_cyclic_u
                      /\ Len(ns.bezier_points) = n
                      /\ \A i \in 0..(n - 1) :
                           LET p == At(s.bezier_points, n - 1 - i)
                               q == At(ns.bezier_points, i)
                           IN  /\ q.co = p.co
                               /\ q.handle_left = p.handle_right
                               /\ q.handle_right = p.handle_left
                               /\ q.handle_left_type = p.handle_right_type
                               /\ q.handle_right_type = p.handle_left_type

\* C6 witness: two calls made on a curve of two splines, one of them with two
\* points, whose left and right handle kinds differ.
C6_Witness ==
    /\ call.n = 2
    /\ Len(orig[1].splines) = 2
    /\ Len(orig[1].splines[1].bezier_points) = 2
    /\ Len(orig[1].splines[2].bezier_points) = 1
    /\ orig[1].splines[1].bezier_points[1].handle_left_type = "AUTO"
    /\ orig[1].splines[1].bezier_points[1].handle_right_type = "VECTOR"
    /\ curves = orig

(***************************************************************************)
(* removeBezierPts called on one curve                                     *)
(***************************************************************************)

RemoveKinds == {<<"ALIGNED", "AUTO">>, <<"VECTOR", "FREE">>}

InitRemove ==
    /\ \E shape \in Shapes, k \in RemoveKinds :
          curves = <<RowCurve(shape, k[1], k[2])>>
    /\ orig = curves
    /\ call = [op |-> "none"]
    /\ ret = None
    /\ NoSearch

\* A call removeBezierPts(obj, splineIdx, removePtIdxs); the indices asked for
\* may name points the spline does not have.
Remove ==
    /\ call.op = "none"
    /\ \E splineIdx \in 0..(Len(curves[1].splines) - 1),
          removePtIdxs \in SUBSET (0..MaxPts),
          negAdd \in NegAddOutcomes :
       \E out \in {removeBezierPts(curves[1], splineIdx, removePtIdxs, negAdd)} :
          /\ curves' = out.curves
          /\ ret' = out.ret
          /\ call' = [op |-> "removeBezierPts", splineIdx |-> splineIdx,
                      removePtIdxs |-> removePtIdxs]
    /\ UNCHANGED <<orig, searchPtsList, coFind, searchResult>>

NextRemove == Remove

SpecRemove == InitRemove /\ [][NextRemove]_vars

Removed == call.op = "removeBezierPts"

\* The points of the spline removeBezierPts was called on, before the call.
RemoveFrom == At(orig[1].splines, call.splineIdx).bezier_points

C10_InvalidRemovalIsNoOp ==
    ( /\ Removed
      /\ \/ ~(call.removePtIdxs \subseteq 0..(Len(RemoveFrom) - 1))
         \/ (Len(RemoveFrom) > 1 /\ call.removePtIdxs = 0..(Len(RemoveFrom) - 1)) )
    => curves = orig

(***************************************************************************)
(* joinSegs                                                                *)
(***************************************************************************)

\* s with its last element replaced by v.
SetLast(s, v) == [s EXCEPT ![Len(s)] = v]

\* A mutant of the end-point test of joinSegs: only the first coordinate of
\* the two ends is compared.
SameEndFirstCoordOnly(srcMW, p, mw, q) ==
    floatCmpWithMargin(ToWorld(srcMW, p.co)[1], ToWorld(mw, q.co)[1])

\* joinSegs, lines 554 and 568: the two points are the 'same' in world space.
SameEnd(srcMW, p, mw, q) ==
    vectCmpWithMargin(ToWorld(srcMW, p.co), ToWorld(mw, q.co))

\* A mutant of joinPts: the closing test is left out.
RECURSIVE joinPtsNeverCloses(_, _, _, _, _, _)
joinPtsNeverCloses(currSpline, nextPts, i, srcMW, mw, straight) ==
    IF i >= Len(nextPts) THEN currSpline
    ELSE LET copied == copyObjAttr(At(nextPts, i), srcMW, mw) IN
         joinPtsNeverCloses(
             [currSpline EXCEPT !.bezier_points = Append(@, copied)],
             nextPts, i + 1, srcMW, mw, straight)

\* joinSegs, lines 566-579: the points of nextSpline from index i on are
\* appended to currSpline, unless the last one closes it.
RECURSIVE joinPts(_, _, _, _, _, _)
joinPts(currSpline, nextPts, i, srcMW, mw, straight) ==
    IF i >= Len(nextPts) THEN currSpline
    ELSE IF /\ i = Len(nextPts) - 1
            /\ SameEnd(mw, At(nextPts, i), srcMW, currSpline.bezier_points[1])
    THEN [bezier_points |->
             SetAt(currSpline.bezier_points, 0,
                   [currSpline.bezier_points[1] EXCEPT
                       !.handle_left_type = "FREE",
                       !.handle_left = FromWorld(srcMW, ToWorld(mw, At(nextPts, i).handle_left))]),
          use_cyclic_u |-> TRUE]
    ELSE LET copied == copyObjAttr(At(nextPts, i), srcMW, mw)
             currBezierPt == IF straight /\ i = 0
                             THEN [copied EXCEPT !.handle_right_type = "FREE",
                                                 !.handle_left_type = "VECTOR"]
                             ELSE copied
         IN  joinPts([currSpline EXCEPT !.bezier_points = Append(@, currBezierPt)],
                     nextPts, i + 1, srcMW, mw, straight)

\* A mutant of joinedCopy: the spline's attributes are not copied, so the
\* new spline is never cyclic.
joinedCopyNotCyclic(spline, srcMW, mw) ==
    [NewSpline EXCEPT
        !.bezier_points = [i \in 1..Len(spline.bezier_points) |->
                              copyObjAttr(spline.bezier_points[i], srcMW, mw)]]

\* joinSegs, lines 582-588: a spline of the consumed curve other than its
\* first, as it is added to the target.
joinedCopy(spline, srcMW, mw) ==
    [copySplineAttr(spline, NewSpline) EXCEPT
        !.bezier_points = [i \in 1..Len(spline.bezier_points) |->
                              copyObjAttr(spline.bezier_points[i], srcMW, mw)]]

\* joinSegs, lines 536-591: the target object after curve has been joined to it.
joinOne(srcCurve, curve, straight) ==
    LET srcMW == srcCurve.matrix_world
        mw == curve.matrix_world
        currSpline == addLastSeg(Last(srcCurve.splines))
        nextSpline == addLastSeg(curve.splines[1])
        currBezierPt == Last(currSpline.bezier_points)
        nextBezierPt == nextSpline.bezier_points[1]
        same == SameEnd(srcMW, currBezierPt, mw, nextBezierPt)
        ptIdx == IF same THEN 1 ELSE 0
        merged == IF same
                  THEN [currBezierPt EXCEPT
                          !.handle_right_type = "FREE",
                          !.handle_right = FromWorld(srcMW, ToWorld(mw, nextBezierPt.handle_right))]
                  ELSE currBezierPt
        started == IF straight /\ ptIdx = 0
                   THEN [merged EXCEPT !.handle_left_type = "FREE",
                                       !.handle_right_type = "VECTOR"]
                   ELSE merged
        joined == joinPts([currSpline EXCEPT !.bezier_points = SetLast(@, started)],
                          nextSpline.bezier_points, ptIdx, srcMW, mw, straight)
        others == Tail(curve.splines)
    IN  [srcCurve EXCEPT !.splines =
            SetLast(@, joined) \o [k \in 1..Len(others) |-> joinedCopy(others[k], srcMW, mw)]]

\* joinSegs, the loop of line 536 over the curves from index i on: for each
\* curve joined, the target before, the curve, and the target after.
RECURSIVE joinTrace(_, _, _, _)
joinTrace(srcCurve, cs, i, straight) ==
    IF i >= Len(cs) THEN <<>>
    ELSE LET after == joinOne(srcCurve, At(cs, i), straight) IN
         <<[before |-> srcCurve, curve |-> At(cs, i), after |-> after]>>
           \o joinTrace(after, cs, i + 1, straight)

\* joinSegs(curves, optimized = False, straight): the objects left in the
\* scene, what is returned, and the trace of the joins made.
joinSegs(cs, straight) ==
    IF Len(cs) = 0 THEN [curves |-> cs, ret |-> None, trace |-> <<>>]
    ELSE IF Len(cs) = 1 THEN [curves |-> cs, ret |-> cs[1].name, trace |-> <<>>]
    ELSE LET trace == joinTrace(cs[1], cs, 1, straight) IN
         [curves |-> <<Last(trace).after>>, ret |-> cs[1].name, trace |-> trace]

\* Bounds of the curves joined: curves in a call, points in a spline.
MaxCurves == 2

MaxJoinPts == 2

\* The world positions a spline of a joined curve can start and end at; they
\* differ in the second coordinate only.
JoinEnds == {<<0, 0>>, <<0, 4>>}

\* The curves of odd index lie a little off the others, within the margin.
Jitter(c) == IF c % 2 = 1 THEN <<1, -1>> ELSE <<0, 0>>

JoinMW(c) == <<7 * c + 5, -3 * c>>

\* The first spline of a joined curve: its point count, whether it is cyclic
\* and the world positions of its first and last points.
JoinSplineSpecs ==
    {sp \in (1..MaxJoinPts) \X BOOLEAN \X JoinEnds \X JoinEnds :
        sp[1] = 1 => sp[4] = sp[3]}

\* Curve c (0-based) of a call: a first spline as specified and, when the
\* curves of the call have one, a second, cyclic spline of two points.
JoinCurve(c, sp, extra) ==
    LET n == sp[1]
        world(j) == VAdd(Jitter(c), IF j = 0 THEN sp[3]
                                    ELSE IF j = n - 1 THEN sp[4]
                                    ELSE <<20 * j, 30>>)
        first == [bezier_points |->
                     [i \in 1..n |-> MakePt(FromWorld(JoinMW(c), world(i - 1)),
                                            2 * c, i - 1, "ALIGNED", "AUTO")],
                  use_cyclic_u |-> sp[2]]
        second == [bezier_points |->
                     <<MakePt(FromWorld(JoinMW(c), <<50, 50>>), 2 * c + 1, 0, "AUTO", "ALIGNED"),
                       MakePt(FromWorld(JoinMW(c), VAdd(Jitter(c), <<0, 0>>)),
                              2 * c + 1, 1, "AUTO", "ALIGNED")>>,
                   use_cyclic_u |-> TRUE]
    IN  CurveObj(ToString(c), JoinMW(c), IF extra THEN <<first, second>> ELSE <<first>>)

InitJoin ==
    /\ \E k \in 0..MaxCurves, extra \in BOOLEAN :
         \E sps \in [1..k -> JoinSplineSpecs] :
            curves = [c \in 1..k |-> JoinCurve(c - 1, sps[c], extra)]
    /\ orig = curves
    /\ call = [op |-> "none"]
    /\ ret = None
    /\ NoSearch

\* A call joinSegs(curves, optimized = False, straight) on the curves of the
\* scene, in their order.
Join ==
    /\ call.op = "none"
    /\ \E straight \in BOOLEAN :
       \E out \in {joinSegs(curves, straight)} :
          /\ curves' = out.curves
          /\ ret' = out.ret
          /\ call' = [op |-> "joinSegs", straight |-> straight, trace |-> out.trace]
    /\ UNCHANGED <<orig, searchPtsList, coFind, searchResult>>

NextJoin == Join

SpecJoin == InitJoin /\ [][NextJoin]_vars

----------------------------------------------------------------------------
\* Claims about joinSegs. Each is stated of every join of the trace: T is the
\* target spline (the last spline of the target) and N the first spline of
\* the curve joined, both as they were before the join, R the target spline
\* after it.

Joined == call.op = "joinSegs"

JoinSteps == IF Joined THEN Range(call.trace) ELSE {}

TargetOf(e) == Last(e.before.splines)

NextOf(e) == e.curve.splines[1]

ResultOf(e) == e.after.splines[Len(e.before.splines)]

\* The world position of a vector of the target and of the curve joined.
TW(e, v) == ToWorld(e.before.matrix_world, v)

NW(e, v) == ToWorld(e.curve.matrix_world, v)

\* The point count and last point of a spline once addLastSeg has opened it.
OpenLen(s) == Len(s.bezier_points) + (IF s.use_cyclic_u THEN 1 ELSE 0)

OpenEnd(s) == IF s.use_cyclic_u THEN s.bezier_points[1] ELSE Last(s.bezier_points)

\* The first point of N coincides with the last point of T (spline opened).
StartCoincides(e) ==
    vectCmpWithMargin(TW(e, OpenEnd(TargetOf(e)).co), NW(e, NextOf(e).bezier_points[1].co))

\* The last point of N coincides with the first point of T (spline opened).
EndCoincides(e) ==
    vectCmpWithMargin(NW(e, OpenEnd(NextOf(e)).co), TW(e, TargetOf(e).bezier_points[1].co))

\* C4 as claimed: when the first point of N coincides with the last point of
\* T, T gains (point count of N) - 1 points and the shared point has the right
\* handle of N's first point; when they do not coincide T gains (point count
\* of N) points; the joins that close the spline aside. N is counted as it is
\* appended (opened), the gain is counted from T as it was before the call.
C4_AsClaimed ==
    \A e \in JoinSteps :
        ~EndCoincides(e) =>
            LET T == TargetOf(e)
                N == NextOf(e)
                R == ResultOf(e)
                gain == Len(R.bezier_points) - Len(T.bezier_points)
            IN  IF StartCoincides(e)
                THEN /\ gain = OpenLen(N) - 1
                     /\ TW(e, R.bezier_points[OpenLen(T)].handle_right)
                          = NW(e, N.bezier_points[1].handle_right)
                ELSE gain = OpenLen(N)

\* C4, amended: with both splines counted as addLastSeg opens them (a cyclic
\* spline gets a copy of its first point as its last point), R has
\* OpenLen(T) + OpenLen(N) - 1 points when the first point of N coincides with
\* the last point of the opened T, and then that shared point has the right
\* handle of N's first point; R has OpenLen(T) + OpenLen(N) points when they
\* do not coincide; the joins that close the spline aside.
C4_JoinMergesCoincidentEnds ==
    \A e \in JoinSteps :
        LET T == TargetOf(e)
            N == NextOf(e)
            R == ResultOf(e)
        IN  /\ StartCoincides(e) =>
                 /\ OpenLen(T) <= Len(R.bezier_points)
                 /\ TW(e, R.bezier_points[OpenLen(T)].handle_right)
                      = NW(e, N.bezier_points[1].handle_right)
            /\ ~EndCoincides(e) =>
                 Len(R.bezier_points) =
                    OpenLen(T) + OpenLen(N) - (IF StartCoincides(e) THEN 1 ELSE 0)

\* C4 witness: a join of a two-point spline whose first point lies within
\* the margin of, and not on, the last point of the target, with no closure.
C4_Witness ==
    \E e \in JoinSteps :
        /\ StartCoincides(e)
        /\ ~EndCoincides(e)
        /\ Len(NextOf(e).bezier_points) = 2
        /\ TW(e, OpenEnd(TargetOf(e)).co) # NW(e, NextOf(e).bezier_points[1].co)
        /\ Len(ResultOf(e).bezier_points) = Len(TargetOf(e).bezier_points) + 1

\* C5 as claimed: when the last point of N coincides with the first point of
\* T, that point is not appended, R is cyclic and the first point of R has the
\* left handle of that last point.
C5_AsClaimed ==
    \A e \in JoinSteps :
        EndCoincides(e) =>
            LET T == TargetOf(e)
                N == NextOf(e)
                R == ResultOf(e)
            IN  /\ R.use_cyclic_u
                /\ Len(R.bezier_points) < OpenLen(T) + OpenLen(N)
                /\ TW(e, R.bezier_points[1].handle_left) = NW(e, OpenEnd(N).handle_left)

\* The last point of N is reached by the loop that appends N's points: it is
\* not the single point of N already merged into the last point of T.
EndReached(e) == ~(OpenLen(NextOf(e)) = 1 /\ StartCoincides(e))

\* C5 on the joins whose append loop reaches the last point of N: when the
\* last point of the opened N coincides with the first point of T and has not
\* already been merged into the last point of T as the only point of N, it is
\* not appended, R is cyclic and the first point of R has the left handle of
\* that last point.
C5_JoinClosesSpline ==
    \A e \in JoinSteps :
        (EndCoincides(e) /\ EndReached(e)) =>
            LET T == TargetOf(e)
                N == NextOf(e)
                R == ResultOf(e)
            IN  /\ R.use_cyclic_u
                /\ Len(R.bezier_points) =
                     OpenLen(T) + OpenLen(N) - (IF StartCoincides(e) THEN 1 ELSE 0) - 1
                /\ TW(e, R.bezier_points[1].handle_left) = NW(e, OpenEnd(N).handle_left)

\* C5 witness: a two-point spline joined to a two-point target, starting off
\* the target's last point and ending within the margin of its first point.
C5_Witness ==
    \E e \in JoinSteps :
        /\ EndCoincides(e)
        /\ ~StartCoincides(e)
        /\ Len(NextOf(e).bezier_points) = 2
        /\ Len(TargetOf(e).bezier_points) = 2
        /\ ~TargetOf(e).use_cyclic_u
        /\ ResultOf(e).use_cyclic_u
        /\ Len(ResultOf(e).bezier_points) = 3

(***************************************************************************)
(* Bezier evaluator: getPtFromT, getTsForPt, getTForPt, getPartialSeg      *)
(*                                                                         *)
(* A parameter t inside the bisection of getTsForPt is a multiple of       *)
(* 1/TDen, kept as its numerator; a parameter that getTsForPt returns is   *)
(* rounded to three decimals and kept in thousandths, as is every          *)
(* parameter passed on to getPartialSeg. The coordinates the evaluator is  *)
(* given are multiples of TDen^3, so that every value it computes is an    *)
(* integer and the arithmetic is exact, as it is in floating point for     *)
(* such values.                                                            *)
(***************************************************************************)

\* Bound on the iterations of the bisection (maxItr = 1000 in the source): a
\* search that has not met its target in fewer iterations has not converged.
MaxItr == 2

RECURSIVE Pow(_, _)
Pow(b, e) == IF e = 0 THEN 1 ELSE b * Pow(b, e - 1)

\* The bisection halves its step at most MaxItr - 1 times before it must stop.
TDen == Pow(2, MaxItr - 1)

TDen3 == TDen * TDen * TDen

\* The numbers of anchors a call of insertBezierPts is given.
AnchorCounts == {0, 1, 2}

\* Every coordinate of a curve given to insertBezierPts is a multiple of
\* Scale, which keeps two successive splits exact.
Scale == TDen3 * TDen3

\* The numerator over TDen of a parameter given in thousandths.
OnGrid(t) == (t * TDen) \div 1000

\* round(t, 3), in thousandths, of the parameter tn / TDen (half to even).
Round3(tn) ==
    LET q == (1000 * tn) \div TDen
        r == (1000 * tn) % TDen
    IN  IF 2 * r > TDen \/ (2 * r = TDen /\ q % 2 = 1) THEN q + 1 ELSE q

\* c^3 p0 + 3 c^2 t p1 + 3 c t^2 p2 + t^3 p3 for t = tn / TDen, c = 1 - t.
PtAtGrid(p0, p1, p2, p3, tn) ==
    LET cn == TDen - tn IN
    [i \in 1..Len(p0) |->
        cn * cn * cn * (p0[i] \div TDen3) + 3 * cn * cn * tn * (p1[i] \div TDen3)
          + 3 * cn * tn * tn * (p2[i] \div TDen3) + tn * tn * tn * (p3[i] \div TDen3)]

\* getPtFromT(p0, p1, p2, p3, t), t in thousandths.
getPtFromT(p0, p1, p2, p3, t) == PtAtGrid(p0, p1, p2, p3, OnGrid(t))

\* getTsForPt, lines 1325-1343: one search, at the parameter tn / TDen after
\* i iterations, with the step t2n / TDen still to be halved: the parameters
\* it adds to ts. (A value is named by a variable bound in a one-element set.)
RECURSIVE Bisect(_, _, _, _, _, _, _, _, _, _)
Bisect(p0, p1, p2, p3, co, coIdx, dirn, tn, t2n, i) ==
    UNION {
        IF error = 0
        THEN IF tn >= 0 /\ tn <= TDen THEN {Round3(tn)} ELSE {}
        ELSE IF i >= MaxItr - 1 THEN {}
        ELSE UNION {Bisect(p0, p1, p2, p3, co, coIdx, dirn,
                           IF dirn * error < 0 THEN tn + t2 ELSE tn - t2, t2, i + 1) :
                       t2 \in {t2n \div 2}} :
        error \in {PtAtGrid(<<p0[coIdx + 1]>>, <<p1[coIdx + 1]>>, <<p2[coIdx + 1]>>,
                             <<p3[coIdx + 1]>>, tn)[1] - co}}

\* getTsForPt(p0, p1, p2, p3, co, coIdx).
getTsForPt(p0, p1, p2, p3, co, coIdx) ==
    UNION {Bisect(p0, p1, p2, p3, co, coIdx, dirn, T, TDen, 0) :
              T \in {TDen, 0}, dirn \in {1, -1}}

\* getTForPt(curve, testPt): the values it can return, <<>> for None and
\* <<t>> for the parameter t in thousandths. The parameters found on the
\* axes are tried axis by axis and a later one replaces the best so far only
\* when it is strictly closer; the order within one axis is the iteration
\* order of a Python set.
getTForPt(curve, testPt) ==
    UNION {
        LET all == ts[1] \cup ts[2] \cup ts[3]
            pt(t) == getPtFromT(curve[1], curve[2], curve[3], curve[4], t)
        IN  IF all = {} THEN {<<>>}
            ELSE UNION {
                   {<<t>> : t \in ts[Min({a \in 1..3 : ts[a] \cap best # {}})] \cap best} :
                   best \in {{t \in all : \A u \in all :
                                 Len2(VSub(testPt, pt(t))) <= Len2(VSub(testPt, pt(u)))}}} :
        ts \in {<<getTsForPt(curve[1], curve[2], curve[3], curve[4], testPt[1], 0),
                  getTsForPt(curve[1], curve[2], curve[3], curve[4], testPt[2], 1),
                  getTsForPt(curve[1], curve[2], curve[3], curve[4], testPt[3], 2)>>}}

\* getPartialSeg(seg, t0, t1), t0 and t1 in thousandths.
getPartialSeg(seg, t0, t1) ==
    LET a == OnGrid(IF t0 > t1 THEN t1 ELSE t0)
        b == OnGrid(IF t0 > t1 THEN t0 ELSE t1)
        ua == TDen - a
        ub == TDen - b
        d(v) == [i \in 1..Len(v) |-> v[i] \div TDen3]
        p0 == d(seg[1])
        p1 == d(seg[2])
        p2 == d(seg[3])
        p3 == d(seg[4])
        dim == 1..Len(seg[1])
        \* the quadratic blends qa, qb, qc, qd, over TDen^2
        qa == [i \in dim |-> p0[i] * ua * ua + p1[i] * 2 * a * ua + p2[i] * a * a]
        qb == [i \in dim |-> p0[i] * ub * ub + p1[i] * 2 * b * ub + p2[i] * b * b]
        qc == [i \in dim |-> p1[i] * ua * ua + p2[i] * 2 * a * ua + p3[i] * a * a]
        qd == [i \in dim |-> p1[i] * ub * ub + p2[i] * 2 * b * ub + p3[i] * b * b]
    IN  IF seg[1] = seg[2] /\ seg[3] = seg[4]
        THEN LET pt0 == [i \in dim |-> (ua * seg[1][i] + a * seg[3][i]) \div TDen]
                 pt1 == [i \in dim |-> (ub * seg[1][i] + b * seg[3][i]) \div TDen]
             IN  <<pt0, pt0, pt1, pt1>>
        ELSE <<[i \in dim |-> qa[i] * ua + qc[i] * a],
               [i \in dim |-> qa[i] * ub + qc[i] * b],
               [i \in dim |-> qb[i] * ua + qd[i] * a],
               [i \in dim |-> qb[i] * ub + qd[i] * b]>>

(***************************************************************************)
(* insertBezierPts                                                         *)
(***************************************************************************)

\* getAdjIdx(obj, splineIdx, startIdx, offset) on a spline of ptCnt points.
\* The result is wrapped as getTForPt's is: <<>> is None, <<i>> is index i.
getAdjIdx(ptCnt, cyclic, startIdx, offset) ==
    IF ~cyclic /\ (startIdx + offset >= ptCnt \/ startIdx + offset < 0)
    THEN <<>>
    ELSE <<(ptCnt + startIdx + offset) % ptCnt>>

DefaultPt3 == BezPt(<<0, 0, 0>>, <<0, 0, 0>>, <<0, 0, 0>>, "FREE", "FREE")

NoMW3 == <<0, 0, 0>>

\* Lines 248-253: an Auto kind on the segment's side of a boundary point
\* turns both kinds of that point to Aligned, the start point first.
SettleAuto(pts, startIdx, nextIdx) ==
    LET f == At(pts, startIdx)
        p1 == IF f.handle_right_type = "AUTO"
              THEN SetAt(pts, startIdx, [f EXCEPT !.handle_left_type = "ALIGNED",
                                                  !.handle_right_type = "ALIGNED"])
              ELSE pts
        n == At(p1, nextIdx)
    IN  IF n.handle_left_type = "AUTO"
        THEN SetAt(p1, nextIdx, [n EXCEPT !.handle_left_type = "ALIGNED",
                                          !.handle_right_type = "ALIGNED"])
        ELSE p1

\* Lines 258-259: the kinds on the segment's side of its two boundary points
\* are forced to Free, the start point's right kind first.
FreeSegKinds(pts, startIdx, nextIdx) ==
    LET p1 == SetAt(pts, startIdx, [At(pts, startIdx) EXCEPT !.handle_right_type = "FREE"])
    IN  SetAt(p1, nextIdx, [At(p1, nextIdx) EXCEPT !.handle_left_type = "FREE"])

\* A mutant of RestoreSegKinds: the end point's left kind is not restored.
RestoreSegKindsStartOnly(pts, startIdx, endIdx, fhdl, nhdl) ==
    SetAt(pts, startIdx, [At(pts, startIdx) EXCEPT !.handle_right_type = fhdl])

\* Lines 302-303: the kinds saved at lines 255-256 are put back.
RestoreSegKinds(pts, startIdx, endIdx, fhdl, nhdl) ==
    LET p1 == SetAt(pts, startIdx, [At(pts, startIdx) EXCEPT !.handle_right_type = fhdl])
    IN  SetAt(p1, endIdx, [At(p1, endIdx) EXCEPT !.handle_left_type = nhdl])

\* A mutant of ShiftPts: the former points are moved up by one place only.
RECURSIVE ShiftPtsByOne(_, _, _, _, _)
ShiftPtsByOne(pts, ptCnt, nextIdx, addCnt, i) ==
    IF i >= ptCnt - nextIdx \/ addCnt = 0 THEN pts
    ELSE LET idx == ptCnt - i - 1 IN
         ShiftPtsByOne(SetAt(pts, idx + 1, copyObjAttr(At(pts, idx), NoMW3, NoMW3)),
                       ptCnt, nextIdx, addCnt, i + 1)

\* Lines 267-270: the points from nextIdx on are copied addCnt places up,
\* the last one first; i is the loop variable.
RECURSIVE ShiftPts(_, _, _, _, _)
ShiftPts(pts, ptCnt, nextIdx, addCnt, i) ==
    IF i >= ptCnt - nextIdx THEN pts
    ELSE LET idx == ptCnt - i - 1 IN
         ShiftPts(SetAt(pts, idx + addCnt, copyObjAttr(At(pts, idx), NoMW3, NoMW3)),
                  ptCnt, nextIdx, addCnt, i + 1)

\* Lines 284-300: the new point of index ptIdx is given its place on the
\* segment, then prevPt its right handle, then nextPt its left handle.
InsertStep(pts, ptIdx, prevIdx, endIdx, ctrlPts0, ctrlPts1, handleType) ==
    LET p1 == SetAt(pts, ptIdx,
                    BezPt(ctrlPts0[3], ctrlPts1[1], ctrlPts1[2], handleType, handleType))
        p2 == SetAt(p1, prevIdx, [At(p1, prevIdx) EXCEPT !.handle_right = ctrlPts0[2]])
    IN  SetAt(p2, endIdx, [At(p2, endIdx) EXCEPT !.handle_left = ctrlPts1[3]])

\* Lines 276-300: the loop over the new points from its iteration i on, with
\* prevIdx the index of prevPt: the point lists it can end with, and whether
\* it ended by raising. getPartialSeg raises TypeError when t is None.
RECURSIVE InsertLoop(_, _, _, _, _, _, _)
InsertLoop(pts, i, prevIdx, endIdx, nextIdx, cos, handleType) ==
    IF i >= Len(cos) THEN {[bezier_points |-> pts, raised |-> FALSE]}
    ELSE
    UNION {UNION {UNION {
        IF t = <<>>
        THEN {[bezier_points |-> freed, raised |-> TRUE]}
        ELSE UNION {
               InsertLoop(next, i + 1, nextIdx + i, endIdx, nextIdx, cos, handleType) :
               next \in {InsertStep(freed, nextIdx + i, prevIdx, endIdx,
                                    getPartialSeg(seg, 0, t[1]),
                                    getPartialSeg(seg, t[1], 1000), handleType)}} :
        t \in getTForPt(seg, At(cos, i))} :
        seg \in {<<At(freed, prevIdx).co, At(freed, prevIdx).handle_right,
                   At(freed, endIdx).handle_left, At(freed, endIdx).co>>}} :
        freed \in {SetAt(pts, nextIdx + i,
                         [At(pts, nextIdx + i) EXCEPT !.handle_left_type = "FREE",
                                                     !.handle_right_type = "FREE"])}}

\* insertBezierPts(obj, splineIdx, startIdx, cos, handleType): the outcomes
\* it can have. bpts[None] raises TypeError before anything is changed.
insertBezierPts(obj, splineIdx, startIdx, cos, handleType) ==
    LET spline == At(obj.splines, splineIdx)
        bpts == spline.bezier_points
        cyclic == spline.use_cyclic_u
        nextIdx0 == getAdjIdx(Len(bpts), cyclic, startIdx, 1)
        ptCnt == Len(bpts)
        addCnt == Len(cos)
        nextIdx == startIdx + 1
        endIdx == getAdjIdx(ptCnt + addCnt, cyclic, nextIdx, addCnt)[1]
        with(pts) == [obj EXCEPT !.splines =
                         SetAt(obj.splines, splineIdx, [spline EXCEPT !.bezier_points = pts])]
    IN  IF nextIdx0 = <<>> THEN {Outcome(<<obj>>, "raised")}
        ELSE
        UNION {UNION {
            {IF r.raised
             THEN Outcome(<<with(r.bezier_points)>>, "raised")
             ELSE Outcome(<<with(RestoreSegKinds(r.bezier_points, startIdx, endIdx,
                                                 At(settled, startIdx).handle_right_type,
                                                 At(settled, nextIdx0[1]).handle_left_type))>>,
                          "returned") :
             r \in InsertLoop(shifted, 0, startIdx, endIdx, nextIdx, cos, handleType)} :
            shifted \in {ShiftPts(FreeSegKinds(settled, startIdx, nextIdx0[1])
                                     \o [i \in 1..addCnt |-> DefaultPt3],
                                  ptCnt, nextIdx, addCnt, 0)}} :
            settled \in {SettleAuto(bpts, startIdx, nextIdx0[1])}}

(***************************************************************************)
(* insertBezierPts called once on a spline of a curve of two splines       *)
(***************************************************************************)

\* Bound on the number of points of the spline that is given new points.
MaxInsPts == 3

\* Point j of the spline: the anchors zigzag along x, and rise along z by
\* lift; the handles of a curved spline lie beside the anchor, both below
\* it, those of a straight one on it. The left kind of every point is lt, the
\* right kind rt.
InsPt(j, curved, lift, lt, rt) ==
    LET co == <<2 * j * Scale, 2 * (j % 2) * Scale, lift * j * Scale>>
        hl == IF curved THEN <<-Scale, -Scale, 0>> ELSE <<0, 0, 0>>
        hr == IF curved THEN <<Scale, -Scale, 0>> ELSE <<0, 0, 0>>
    IN  BezPt(VAdd(co, hl), co, VAdd(co, hr), lt, rt)

InsSpline(n, cyclic, curved, lift, lt, rt) ==
    [bezier_points |-> [i \in 1..n |-> InsPt(i - 1, curved, lift, lt, rt)],
     use_cyclic_u |-> cyclic]

\* The spline that is left alone.
OtherSpline ==
    [bezier_points |-> <<BezPt(<<-1, 9, 0>>, <<0, 9, 0>>, <<1, 9, 0>>, "AUTO", "AUTO"),
                         BezPt(<<5, 9, 0>>, <<6, 9, 0>>, <<7, 9, 0>>, "VECTOR", "FREE")>>,
     use_cyclic_u |-> TRUE]

\* The 0-based index of the studied spline in its curve.
InsIdx(cyclic) == IF cyclic THEN 0 ELSE 1

InsCurve(n, cyclic, curved, lift, lt, rt) ==
    CurveObj("curve", NoMW3,
             IF cyclic THEN <<InsSpline(n, cyclic, curved, lift, lt, rt), OtherSpline>>
             ELSE <<OtherSpline, InsSpline(n, cyclic, curved, lift, lt, rt)>>)

\* Anchors on the segment seg: the first lies at rels[1] / TDen of seg, each
\* further one at its fraction of what is left of seg after the one before.
RECURSIVE OnSeg(_, _)
OnSeg(seg, rels) ==
    IF rels = <<>> THEN <<>>
    ELSE CHOOSE cos \in
            {<<getPtFromT(seg[1], seg[2], seg[3], seg[4], (1000 * rels[1]) \div TDen)>>
                \o OnSeg(rest, Tail(rels)) :
             rest \in {getPartialSeg(seg, (1000 * rels[1]) \div TDen, 1000)}} : TRUE

\* An anchor away from every segment of the studied spline.
OffSeg == <<-8 * Scale, -8 * Scale, -8 * Scale>>

\* The anchor lists a call is given for the segment from point startIdx.
CosFor(spline, startIdx) ==
    LET bpts == spline.bezier_points
        nextIdx == getAdjIdx(Len(bpts), spline.use_cyclic_u, startIdx, 1)
        e == IF nextIdx = <<>> THEN startIdx ELSE nextIdx[1]
        seg == <<At(bpts, startIdx).co, At(bpts, startIdx).handle_right,
                 At(bpts, e).handle_left, At(bpts, e).co>>
    IN  UNION {{[onSeg |-> TRUE, cos |-> OnSeg(s, rels)] :
                      rels \in UNION {[1..k -> 1..(TDen - 1)] : k \in AnchorCounts}} :
                  s \in {seg}}
        \cup {[onSeg |-> FALSE, cos |-> <<OffSeg>>]}

\* The forms of the studied spline: curved in the plane z = 0, curved and
\* rising, straight and rising.
InsForms == {<<TRUE, 0>>, <<TRUE, 1>>, <<FALSE, 1>>}

\* insertBezierPts is called by subdivSeg, with any anchors and 'FREE', and by
\* insertNode, with one anchor and the kind it was given.
InsCalls(spline, startIdx) ==
    {[onSeg |-> c.onSeg, cos |-> c.cos, handleType |-> h] :
        c \in CosFor(spline, startIdx), h \in {"FREE"}}
    \cup {[onSeg |-> c.onSeg, cos |-> c.cos, handleType |-> h] :
        c \in {c \in CosFor(spline, startIdx) : Len(c.cos) = 1},
        h \in {"ALIGNED", "VECTOR"}}

InitInsert ==
    /\ \E n \in 1..MaxInsPts, cyclic \in BOOLEAN, form \in InsForms,
          lt \in HandleKinds, rt \in HandleKinds :
          curves = <<InsCurve(n, cyclic, form[1], form[2], lt, rt)>>
    /\ orig = curves
    /\ call = [op |-> "none"]
    /\ ret = None
    /\ NoSearch

\* One call of insertBezierPts.
Insert ==
    /\ call.op = "none"
    /\ \E splineIdx \in {i \in 0..1 : At(curves[1].splines, i) # OtherSpline} :
       \E startIdx \in 0..(Len(At(curves[1].splines, splineIdx).bezier_points) - 1) :
       \E c \in InsCalls(At(curves[1].splines, splineIdx), startIdx) :
       \E out \in insertBezierPts(curves[1], splineIdx, startIdx, c.cos, c.handleType) :
          /\ curves' = out.curves
          /\ ret' = out.ret
          /\ call' = [op |-> "insertBezierPts", splineIdx |-> splineIdx,
                      startIdx |-> startIdx, cos |-> c.cos, onSeg |-> c.onSeg,
                      handleType |-> c.handleType]
    /\ UNCHANGED <<orig, searchPtsList, coFind, searchResult>>

NextInsert == Insert

SpecInsert == InitInsert /\ [][NextInsert]_vars

(***************************************************************************)
(* Claims about insertBezierPts                                            *)
(***************************************************************************)

Inserted == call.op = "insertBezierPts"

InsBefore == At(orig[1].splines, call.splineIdx).bezier_points

InsAfter == At(curves[1].splines, call.splineIdx).bezier_points

\* The call was given a segment of the spline and anchors that lie on it.
OnSegment ==
    /\ Inserted
    /\ call.onSeg
    /\ \/ call.startIdx < Len(InsBefore) - 1
       \/ At(orig[1].splines, call.splineIdx).use_cyclic_u

\* The index of the segment's end point before the call and after it.
EndBefore == (call.startIdx + 1) % Len(InsBefore)

EndAfter == IF EndBefore = 0 THEN 0 ELSE EndBefore + Len(call.cos)

\* The kinds (left, right) of a boundary point after the call, given its
\* kinds before it and the kind on the segment's side: Auto on that side has
\* turned both to Aligned.
KindsSettled(pt, segSideKind) ==
    IF segSideKind = "AUTO" THEN <<"ALIGNED", "ALIGNED">>
    ELSE <<pt.handle_left_type, pt.handle_right_type>>

KindsOf(pt) == <<pt.handle_left_type, pt.handle_right_type>>

\* The segment is not one that getPartialSeg treats as a straight line.
CurvedSeg ==
    \/ At(InsBefore, call.startIdx).co # At(InsBefore, call.startIdx).handle_right
    \/ At(InsBefore, EndBefore).co # At(InsBefore, EndBefore).handle_left

\* What C7 says of the points' positions, of the cyclic flag and of the
\* other splines. That new point j was made for anchor j shows on a curved
\* segment, where its anchor is anchor j.
InsertPlaces ==
    LET n == Len(InsBefore)
        k == Len(call.cos)
        i == call.startIdx
    IN  /\ ret = "returned"
        /\ Len(InsAfter) = n + k
        /\ \A j \in 0..i : At(InsAfter, j).co = At(InsBefore, j).co
        /\ CurvedSeg => \A j \in 0..(k - 1) : At(InsAfter, i + 1 + j).co = At(call.cos, j)
        /\ \A j \in (i + 1)..(n - 1) :
              /\ At(InsAfter, j + k).co = At(InsBefore, j).co
              /\ At(InsAfter, j + k).handle_right = At(InsBefore, j).handle_right
        /\ Len(curves[1].splines) = Len(orig[1].splines)
        /\ At(curves[1].splines, call.splineIdx).use_cyclic_u
              = At(orig[1].splines, call.splineIdx).use_cyclic_u
        /\ \A s \in 0..(Len(orig[1].splines) - 1) :
              s # call.splineIdx => At(curves[1].splines, s) = At(orig[1].splines, s)

\* C7 as it is stated: the former points i+1..n-1 keep their handle kinds.
C7_AsClaimed ==
    OnSegment =>
       /\ InsertPlaces
       /\ \A j \in (call.startIdx + 1)..(Len(InsBefore) - 1) :
             KindsOf(At(InsAfter, j + Len(call.cos))) = KindsOf(At(InsBefore, j))

\* C7: insertBezierPts with k anchors on segment i of a spline of n points
\* yields n+k points: points 0..i keep their anchors, the new points take
\* places i+1..i+k in the order of the anchors, the former points i+1..n-1
\* take places i+1+k..n-1+k with their anchors and right handles, and with
\* their handle kinds except that the segment's end point, if its left kind
\* was Auto, has both kinds Aligned; on the closing segment of a cyclic spline
\* the new points follow the last point and the end point stays point 0. The
\* cyclic flag and the other splines are unchanged.
C7_InsertPlacesPoints ==
    OnSegment =>
       /\ InsertPlaces
       /\ \A j \in (call.startIdx + 1)..(Len(InsBefore) - 1) :
             KindsOf(At(InsAfter, j + Len(call.cos)))
                = IF j = EndBefore
                  THEN KindsSettled(At(InsBefore, j), At(InsBefore, j).handle_left_type)
                  ELSE KindsOf(At(InsBefore, j))

\* Two anchors were put on the first segment of an open spline of three
\* points whose second point had an Auto left handle.
C7_Witness ==
    /\ OnSegment
    /\ ret = "returned"
    /\ call.startIdx = 0
    /\ Len(call.cos) = 2
    /\ Len(InsBefore) = 3
    /\ Len(InsAfter) = 5
    /\ ~At(orig[1].splines, call.splineIdx).use_cyclic_u
    /\ At(InsBefore, 1).handle_left_type = "AUTO"
    /\ At(InsAfter, 3).handle_left_type = "ALIGNED"
    /\ At(InsAfter, 4) = At(InsBefore, 2)

\* C8 as it is stated: the untouched sides keep position and kind, and the
\* kinds on the segment's side are the original ones, whatever they were.
C8_AsClaimed ==
    OnSegment =>
       LET sB == At(InsBefore, call.startIdx)
           sA == At(InsAfter, call.startIdx)
           eB == At(InsBefore, EndBefore)
           eA == At(InsAfter, EndAfter)
       IN  /\ ret = "returned"
           /\ sA.handle_left = sB.handle_left
           /\ eA.handle_right = eB.handle_right
           /\ KindsOf(sA) = KindsOf(sB)
           /\ KindsOf(eA) = KindsOf(eB)

\* C8: when the segment's start and end are two points, insertBezierPts
\* leaves the start point's left handle and the end point's right handle
\* where they were, and the four kinds of the two points as they were, except
\* that a point whose kind on the segment's side was Auto has both its kinds
\* Aligned.
C8_InsertKeepsBoundary ==
    (OnSegment /\ Len(InsBefore) > 1) =>
       LET sB == At(InsBefore, call.startIdx)
           sA == At(InsAfter, call.startIdx)
           eB == At(InsBefore, EndBefore)
           eA == At(InsAfter, EndAfter)
       IN  /\ ret = "returned"
           /\ sA.handle_left = sB.handle_left
           /\ eA.handle_right = eB.handle_right
           /\ KindsOf(sA) = KindsSettled(sB, sB.handle_right_type)
           /\ KindsOf(eA) = KindsSettled(eB, eB.handle_left_type)

\* A point was put on a segment between two points, the first with a Vector
\* left and an Auto right kind, which are both Aligned afterwards, the second
\* with a Vector left kind, which it has again.
C8_Witness ==
    /\ OnSegment
    /\ ret = "returned"
    /\ Len(InsBefore) > 1
    /\ Len(call.cos) >= 1
    /\ KindsOf(At(InsBefore, call.startIdx)) = <<"VECTOR", "AUTO">>
    /\ KindsOf(At(InsAfter, call.startIdx)) = <<"ALIGNED", "ALIGNED">>
    /\ At(InsAfter, EndAfter).handle_left_type = "VECTOR"
    /\ At(InsAfter, EndAfter).handle_left # At(InsBefore, EndBefore).handle_left

----------------------------------------------------------------------------
\* C11: removeBezierPts on a spline of exactly one point, with index 0 in the
\* removal set, removes that spline and leaves the other splines as and where
\* they were; the curve object is removed when it has no spline left, and
\* stays otherwise.
C11_RemoveSolePoint ==
    (Removed /\ Len(RemoveFrom) = 1 /\ 0 \in call.removePtIdxs) =>
       /\ ret = "returned"
       /\ IF Len(orig[1].splines) = 1
          THEN curves = <<>>
          ELSE /\ Len(curves) = 1
               /\ curves[1].name = orig[1].name
               /\ Len(curves[1].splines) = Len(orig[1].splines) - 1
               /\ \A k \in 0..(Len(orig[1].splines) - 1) :
                     /\ k < call.splineIdx =>
                           At(curves[1].splines, k) = At(orig[1].splines, k)
                     /\ k > call.splineIdx =>
                           At(curves[1].splines, k - 1) = At(orig[1].splines, k)

\* C11 witness: the one-point second spline of a curve of two splines has
\* been removed and the curve is left with its first spline.
C11_Witness ==
    /\ Removed
    /\ Len(orig[1].splines) = 2
    /\ call.splineIdx = 1
    /\ Len(RemoveFrom) = 1
    /\ call.removePtIdxs = {0}
    /\ Len(curves) = 1
    /\ curves[1].splines = <<orig[1].splines[1]>>

\* C11 witness: the only point of the only spline of a curve has been removed,
\* and the curve object with it.
C11_WitnessObjGone ==
    /\ Removed
    /\ Len(orig[1].splines) = 1
    /\ Len(RemoveFrom) = 1
    /\ 0 \in call.removePtIdxs
    /\ curves = <<>>

(***************************************************************************)
(* removeDupliVert                                                         *)
(***************************************************************************)

\* A mutant of PopTrailing: the trailing points are dropped but the new
\* spline is never marked cyclic.
PopTrailingNotCyclic(pts, cmpLen, prevIdx, cyclic) ==
    LET k == CHOOSE k \in 1..cmpLen :
                /\ \A j \in (k + 1)..cmpLen : vectCmpWithMargin(pts[j].co, pts[1].co)
                /\ (k = 1 \/ ~vectCmpWithMargin(pts[k].co, pts[1].co))
    IN  [pts |-> pts, cmpLen |-> k,
         prevIdx |-> IF k < cmpLen THEN k ELSE prevIdx, cyclic |-> cyclic]

\* Lines 617-621, the while loop. pts are the points of the spline being
\* read (the curve's present data), cmpPts is their first cmpLen ones, pt is
\* the first, prevIdx is the index of prevPt and cyclic is
\* currSpline.use_cyclic_u. Each pass pops the last of cmpPts, frees the left
\* handle of pt and moves it to the popped point's, and marks the new spline
\* cyclic.
RECURSIVE PopTrailing(_, _, _, _)
PopTrailing(pts, cmpLen, prevIdx, cyclic) ==
    IF vectCmpWithMargin(At(pts, cmpLen - 1).co, At(pts, 0).co) /\ cmpLen > 1
    THEN PopTrailing(SetAt(pts, 0, [At(pts, 0) EXCEPT
                                      !.handle_left_type = "FREE",
                                      !.handle_left = At(pts, cmpLen - 1).handle_left]),
                     cmpLen - 1, cmpLen - 1, TRUE)
    ELSE [pts |-> pts, cmpLen |-> cmpLen, prevIdx |-> prevIdx, cyclic |-> cyclic]

\* Lines 622-630, the for loop over cmpPts from its (0-based) index i on.
\* A point that coincides with prevPt frees prevPt's right handle and moves
\* it to its own, and sets dupliFound; any other point is added to the new
\* spline as a copy and becomes prevPt. prevPt and pt are points of the
\* spline being read, newPts are the points of the new spline.
RECURSIVE ScanPts(_, _, _, _, _, _)
ScanPts(pts, cmpLen, i, prevIdx, newPts, dupliFound) ==
    IF i >= cmpLen
    THEN [pts |-> pts, newPts |-> newPts, dupliFound |-> dupliFound]
    ELSE IF vectCmpWithMargin(At(pts, prevIdx).co, At(pts, i).co)
         THEN ScanPts(SetAt(pts, prevIdx, [At(pts, prevIdx) EXCEPT
                                             !.handle_right_type = "FREE",
                                             !.handle_right = At(pts, i).handle_right]),
                      cmpLen, i + 1, prevIdx, newPts, TRUE)
         ELSE ScanPts(pts, cmpLen, i + 1, i,
                      Append(newPts, copyObjAttr(At(pts, i), NoMW, NoMW)), dupliFound)

\* Lines 602-630, the body of the loop over the splines, for one spline:
\* the spline as the call leaves it in the data that was read (old), the
\* spline built in newCurveData (new), and whether dupliFound was set.
DedupSpline(spline) ==
    LET bpts == spline.bezier_points
        currSpline == copySplineAttr(spline, NewSpline)
        first == copyObjAttr(bpts[1], NoMW, NoMW)
    IN  IF Len(bpts) = 1
        THEN [old |-> spline,
              new |-> [currSpline EXCEPT !.bezier_points = <<first>>],
              dupliFound |-> FALSE]
        ELSE CHOOSE r \in
               { [old |-> [spline EXCEPT !.bezier_points = f.pts],
                  new |-> [bezier_points |-> f.newPts, use_cyclic_u |-> w.cyclic],
                  dupliFound |-> f.dupliFound] :
                 f \in UNION { {ScanPts(w.pts, w.cmpLen, 0, w.prevIdx, <<first>>, FALSE)} :
                               w \in {PopTrailing(bpts, Len(bpts), 0, currSpline.use_cyclic_u)} },
                 w \in {PopTrailing(bpts, Len(bpts), 0, currSpline.use_cyclic_u)} } : TRUE

\* removeDupliVert(curve): the curve afterwards, and whether curve.data was
\* replaced by newCurveData (lines 632-635).
removeDupliVert(curve) ==
    LET res == [k \in 1..Len(curve.splines) |-> DedupSpline(curve.splines[k])]
        dupliFound == \E k \in 1..Len(curve.splines) : res[k].dupliFound
    IN  [curves |-> <<[curve EXCEPT !.splines =
                         [k \in 1..Len(curve.splines) |->
                            IF dupliFound THEN res[k].new ELSE res[k].old]]>>,
         ret |-> "returned",
         dataReplaced |-> dupliFound]

\* Anchors of the curves removeDupliVert is called on: <<1, 1>> is within the
\* margin of <<0, 0>>, <<0, 2>> is at the margin and so outside it.
DupCos == {<<0, 0>>, <<1, 1>>, <<0, 2>>, <<10, 0>>}

\* The first spline: any anchors of DupCos, cyclic or not.
DupSplines ==
    UNION { { [bezier_points |-> [j \in 1..n |-> MakePt(cos[j], 0, j - 1, "ALIGNED", "AUTO")],
               use_cyclic_u |-> cyclic] :
              cos \in [1..n -> DupCos], cyclic \in BOOLEAN } : n \in 1..MaxPts }

\* The other splines of the curve, if any.
DupOthers ==
    { <<>>,
      <<[bezier_points |-> <<MakePt(<<0, 40>>, 1, 0, "VECTOR", "ALIGNED")>>,
         use_cyclic_u |-> TRUE]>>,
      <<[bezier_points |-> <<MakePt(<<0, 40>>, 1, 0, "VECTOR", "ALIGNED"),
                             MakePt(<<20, 40>>, 1, 1, "VECTOR", "ALIGNED")>>,
         use_cyclic_u |-> FALSE]>>,
      <<[bezier_points |-> <<MakePt(<<0, 40>>, 1, 0, "VECTOR", "ALIGNED"),
                             MakePt(<<1, 39>>, 1, 1, "VECTOR", "ALIGNED")>>,
         use_cyclic_u |-> FALSE]>> }

InitDedup ==
    /\ \E s \in DupSplines, others \in DupOthers :
          curves = <<CurveObj("curve", NoMW, <<s>> \o others)>>
    /\ orig = curves
    /\ call = [op |-> "none"]
    /\ ret = None
    /\ NoSearch

\* RemoveDupliVertCurveOp.execute on the curve (line 897).
Dedup ==
    /\ call.op = "none"
    /\ \E out \in {removeDupliVert(curves[1])} :
          /\ curves' = out.curves
          /\ ret' = out.ret
          /\ call' = [op |-> "removeDupliVert", dataReplaced |-> out.dataReplaced]
    /\ UNCHANGED <<orig, searchPtsList, coFind, searchResult>>

NextDedup == Dedup

SpecDedup == InitDedup /\ [][NextDedup]_vars

Deduped == call.op = "removeDupliVert"

\* Two points coincide within the margin.
Coincide(p, q) == vectCmpWithMargin(p.co, q.co)

\* A spline has a duplicate: two consecutive points coincide, or it has more
\* than one point and its last point coincides with its first.
HasDupli(spline) ==
    LET pts == spline.bezier_points
    IN  \/ \E j \in 1..(Len(pts) - 1) : Coincide(pts[j], pts[j + 1])
        \/ Len(pts) > 1 /\ Coincide(pts[Len(pts)], pts[1])

\* C12, as claimed: called on a curve in which no two consecutive points
\* coincide and no spline's last point coincides with its first,
\* removeDupliVert does not replace the curve's data and leaves every point's
\* handle positions and kinds as they were.
C12_NoDupliNoChange ==
    (Deduped /\ \A k \in 1..Len(orig[1].splines) : ~HasDupli(orig[1].splines[k])) =>
       /\ ~call.dataReplaced
       /\ curves = orig

\* The points of the first spline before the call, and after it.
DupBefore == orig[1].splines[1].bezier_points

DupAfter == curves[1].splines[1].bezier_points

\* Points j and j + 1 of pts (1-based) are the only two consecutive points
\* that coincide, and the last point does not coincide with the first.
OnlyInteriorDupli(pts, j) ==
    /\ Coincide(pts[j], pts[j + 1])
    /\ \A i \in 1..(Len(pts) - 1) : i # j => ~Coincide(pts[i], pts[i + 1])
    /\ ~Coincide(pts[Len(pts)], pts[1])

\* The last point of pts coincides with the first and no two consecutive
\* points coincide.
OnlyTrailingDupli(pts) ==
    /\ Len(pts) > 2
    /\ Coincide(pts[Len(pts)], pts[1])
    /\ \A i \in 1..(Len(pts) - 1) : ~Coincide(pts[i], pts[i + 1])

\* C13, as claimed: in the curve removeDupliVert produces, the point before a
\* dropped interior duplicate has the duplicate's right handle, and the first
\* point of a spline whose trailing points were dropped has the left handle
\* of a dropped trailing point.
C13_AbsorbedHandlesKept ==
    Deduped =>
       /\ \A j \in 1..(Len(DupBefore) - 1) :
             OnlyInteriorDupli(DupBefore, j) =>
                /\ Len(DupAfter) = Len(DupBefore) - 1
                /\ DupAfter[j].handle_right = DupBefore[j + 1].handle_right
       /\ OnlyTrailingDupli(DupBefore) =>
             DupAfter[1].handle_left \in
                { DupBefore[i].handle_left : i \in { i \in 2..Len(DupBefore) :
                                                       Coincide(DupBefore[i], DupBefore[1]) } }

\* The (1-based) indices of the trailing points of pts: the points after the
\* first from which on every point coincides with the first.
Trailing(pts) ==
    { i \in 2..Len(pts) : \A j \in i..Len(pts) : Coincide(pts[j], pts[1]) }

\* sub is made of elements of the first n elements of pts, in their order: f
\* names the place each one comes from.
PlacesIn(sub, pts, n) ==
    { f \in [1..Len(sub) -> 1..n] :
         /\ \A m \in 1..Len(sub) : sub[m].co = pts[f[m]].co
         /\ \A m \in 1..(Len(sub) - 1) : f[m] < f[m + 1] }

\* C14: a spline of two or more points whose trailing points coincide with
\* its first point comes out of removeDupliVert cyclic and made of points
\* that precede the trailing ones, in their original order and starting with
\* the first point, every point that coincides with no other point of the
\* spline among them; a spline of one point comes out as it was, its cyclic
\* flag included.
C14_TrailingDroppedAndCyclic ==
    Deduped =>
       \A k \in 1..Len(orig[1].splines) :
          LET old == orig[1].splines[k]
              new == curves[1].splines[k]
              pts == old.bezier_points
              n == Len(pts) - Cardinality(Trailing(pts))
          IN  /\ Len(curves[1].splines) = Len(orig[1].splines)
              /\ Len(pts) = 1 => new = old
              /\ (Len(pts) >= 2 /\ Trailing(pts) # {}) =>
                    /\ new.use_cyclic_u
                    /\ \E f \in PlacesIn(new.bezier_points, pts, n) :
                          /\ f[1] = 1
                          /\ \A i \in 1..n :
                                (\A j \in 1..Len(pts) : j # i => ~Coincide(pts[i], pts[j]))
                                   => \E m \in 1..Len(new.bezier_points) : f[m] = i

\* A spline of three points that was not cyclic and whose last point
\* coincides with its first has come out cyclic with two points, next to a
\* spline of one point.
C14_Witness ==
    /\ Deduped
    /\ Len(orig[1].splines) = 2
    /\ Len(orig[1].splines[2].bezier_points) = 1
    /\ Len(DupBefore) = 3
    /\ Trailing(DupBefore) = {3}
    /\ ~orig[1].splines[1].use_cyclic_u
    /\ curves[1].splines[1].use_cyclic_u
    /\ Len(DupAfter) = 2

(***************************************************************************)
(* getClosestCurve and getCurvesArrangedByDist                             *)
(***************************************************************************)

\* The default minDist of getClosestCurve, 9e+99: every distance is less.
\* Any other minDist m is <<m>>. Distances are kept squared.
NoMinDist == <<>>

DistLess(dist, minDist) == minDist = NoMinDist \/ dist < minDist[1]

\* The squared distance between a point of a curve with matrix mw and a
\* point of a curve with matrix srcMW, in world space (lines 474 and 478).
WorldDist2(mw, co, srcMW, pt) == Len2(VSub(ToWorld(mw, co), ToWorld(srcMW, pt)))

\* A mutant of getClosestFrom: a curve that is as near as the nearest so far
\* takes its place.
RECURSIVE getClosestFromLatest(_, _, _, _, _, _)
getClosestFromLatest(srcMW, pt, cs, i, closestCurve, minDist) ==
    IF i >= Len(cs)
    THEN [closestCurve |-> closestCurve, minDist |-> minDist, curves |-> cs]
    ELSE CHOOSE r \in
           { getClosestFromLatest(srcMW, pt,
                SetAt(cs, i, IF e.byEnd THEN reverseCurve(e.curve) ELSE e.curve),
                i + 1,
                IF e.byStart \/ e.byEnd THEN <<i>> ELSE closestCurve,
                IF e.byEnd THEN <<e.dEnd>> ELSE IF e.byStart THEN <<e.dStart>> ELSE minDist) :
             e \in { [curve |-> c, dStart |-> dS, dEnd |-> dE,
                      byStart |-> minDist = NoMinDist \/ dS <= minDist[1],
                      byEnd |-> IF minDist = NoMinDist \/ dS <= minDist[1]
                                THEN dE <= dS ELSE dE <= minDist[1]] :
                     c \in {[At(cs, i) EXCEPT !.splines[1] = addLastSeg(@)]},
                     dS \in {WorldDist2(At(cs, i).matrix_world,
                                        At(cs, i).splines[1].bezier_points[1].co, srcMW, pt)},
                     dE \in {WorldDist2(At(cs, i).matrix_world,
                                        Last(Last([At(cs, i) EXCEPT !.splines[1] = addLastSeg(@)].splines).bezier_points).co,
                                        srcMW, pt)} } } : TRUE

\* A mutant of getClosestFrom: a curve whose end is the nearer is taken as
\* it lies, without being reversed.
RECURSIVE getClosestFromAsIs(_, _, _, _, _, _)
getClosestFromAsIs(srcMW, pt, cs, i, closestCurve, minDist) ==
    IF i >= Len(cs)
    THEN [closestCurve |-> closestCurve, minDist |-> minDist, curves |-> cs]
    ELSE CHOOSE r \in
           { getClosestFromAsIs(srcMW, pt, SetAt(cs, i, e.curve), i + 1,
                IF e.byStart \/ e.byEnd THEN <<i>> ELSE closestCurve,
                IF e.byEnd THEN <<e.dEnd>> ELSE IF e.byStart THEN <<e.dStart>> ELSE minDist) :
             e \in { [curve |-> c, dStart |-> dS, dEnd |-> dE,
                      byStart |-> DistLess(dS, minDist),
                      byEnd |-> DistLess(dE, IF DistLess(dS, minDist) THEN <<dS>> ELSE minDist)] :
                     c \in {[At(cs, i) EXCEPT !.splines[1] = addLastSeg(@)]},
                     dS \in {WorldDist2(At(cs, i).matrix_world,
                                        At(cs, i).splines[1].bezier_points[1].co, srcMW, pt)},
                     dE \in {WorldDist2(At(cs, i).matrix_world,
                                        Last(Last([At(cs, i) EXCEPT !.splines[1] = addLastSeg(@)].splines).bezier_points).co,
                                        srcMW, pt)} } } : TRUE

\* getClosestCurve, the loop of lines 468-482 from index i of curves on:
\* the first spline of the curve is opened; the curve becomes the closest
\* when its start is nearer than minDist, and again, reversed, when its end
\* is nearer still. closestCurve is <<>> (None) or <<index in curves>>.
RECURSIVE getClosestFrom(_, _, _, _, _, _)
getClosestFrom(srcMW, pt, cs, i, closestCurve, minDist) ==
    IF i >= Len(cs)
    THEN [closestCurve |-> closestCurve, minDist |-> minDist, curves |-> cs]
    ELSE CHOOSE r \in
           { getClosestFrom(srcMW, pt,
                SetAt(cs, i, IF e.byEnd THEN reverseCurve(e.curve) ELSE e.curve),
                i + 1,
                IF e.byStart \/ e.byEnd THEN <<i>> ELSE closestCurve,
                IF e.byEnd THEN <<e.dEnd>> ELSE IF e.byStart THEN <<e.dStart>> ELSE minDist) :
             e \in { [curve |-> c, dStart |-> dS, dEnd |-> dE,
                      byStart |-> DistLess(dS, minDist),
                      byEnd |-> DistLess(dE, IF DistLess(dS, minDist) THEN <<dS>> ELSE minDist)] :
                     c \in {[At(cs, i) EXCEPT !.splines[1] = addLastSeg(@)]},
                     dS \in {WorldDist2(At(cs, i).matrix_world,
                                        At(cs, i).splines[1].bezier_points[1].co, srcMW, pt)},
                     dE \in {WorldDist2(At(cs, i).matrix_world,
                                        Last(Last([At(cs, i) EXCEPT !.splines[1] = addLastSeg(@)].splines).bezier_points).co,
                                        srcMW, pt)} } } : TRUE

\* getClosestCurve(srcMW, pt, curves, minDist): the closest curve, its
\* distance, and the curves as the search leaves them.
getClosestCurve(srcMW, pt, cs, minDist) ==
    getClosestFrom(srcMW, pt, cs, 0, <<>>, minDist)

\* getCurvesArrangedByDist, one pass of the loop of lines 492-510: placed
\* are the curves of orderedCurves, the last being nextCurve, and remaining
\* is remainingCurves.
ArrangeStep(placed, remaining) ==
    CHOOSE r \in
      { [placed |-> SetLast(placed, IF r2.closestCurve # <<>>
                                    THEN reverseCurve(nextCurve) ELSE nextCurve)
                      \o <<At(r2.curves, (IF r2.closestCurve # <<>>
                                          THEN r2.closestCurve ELSE r2.first)[1])>>,
         remaining |-> RemoveAt(r2.curves, (IF r2.closestCurve # <<>>
                                            THEN r2.closestCurve ELSE r2.first)[1])] :
        nextCurve \in {[Last(placed) EXCEPT !.splines = SetLast(@, addLastSeg(Last(@)))]},
        r2 \in UNION {
                 { IF Len(placed) = 1
                   THEN [first |-> r1.closestCurve] @@
                        getClosestCurve(Last(placed).matrix_world,
                                        Last(placed).splines[1].bezier_points[1].co,
                                        r1.curves, r1.minDist)
                   ELSE [first |-> r1.closestCurve, closestCurve |-> <<>>,
                         minDist |-> r1.minDist, curves |-> r1.curves] } :
                 r1 \in { getClosestCurve(
                            Last(placed).matrix_world,
                            Last(addLastSeg(Last(Last(placed).splines)).bezier_points).co,
                            remaining, NoMinDist) } } } : TRUE

RECURSIVE ArrangeFrom(_, _)
ArrangeFrom(placed, remaining) ==
    IF Len(remaining) = 0 THEN placed
    ELSE CHOOSE r \in { ArrangeFrom(s.placed, s.remaining) :
                        s \in {ArrangeStep(placed, remaining)} } : TRUE

\* getCurvesArrangedByDist(curves), for one curve or more: the curves in
\* the order found, as the search leaves them.
getCurvesArrangedByDist(cs) == ArrangeFrom(<<cs[1]>>, Tail(cs))

\* A mutant of joinSegsOptimized: a call with one curve returns None.
joinSegsNoneForOne(cs, optimized, straight) ==
    IF Len(cs) <= 1 THEN [curves |-> cs, ret |-> None, trace |-> <<>>]
    ELSE joinSegs(cs, straight)

\* joinSegs(curves, optimized, straight), lines 514-520: the early returns
\* come before the curves are arranged.
joinSegsOptimized(cs, optimized, straight) ==
    IF Len(cs) <= 1 THEN joinSegs(cs, straight)
    ELSE IF optimized
         THEN CHOOSE r \in { joinSegs(arranged, straight) :
                             arranged \in {getCurvesArrangedByDist(cs)} } : TRUE
         ELSE joinSegs(cs, straight)

\* The numbers of curves arranged in a call.
ArrangeCounts == 0..3

\* The world positions at which a curve to be arranged starts and ends.
ArrangeEnds == {<<0, 0>>, <<0, 4>>, <<6, 0>>}

\* Curve c (0-based) of a call: one spline of two points, from start to end
\* in world space, cyclic or not.
ArrangeCurve(c, start, end, cyclic) ==
    CurveObj(ToString(c), JoinMW(c),
             <<[bezier_points |->
                  <<MakePt(FromWorld(JoinMW(c), start), c, 0, "ALIGNED", "AUTO"),
                    MakePt(FromWorld(JoinMW(c), end), c, 1, "ALIGNED", "AUTO")>>,
                use_cyclic_u |-> cyclic]>>)

InitArrange ==
    /\ \E k \in ArrangeCounts :
         \E sps \in [1..k -> ArrangeEnds \X ArrangeEnds \X BOOLEAN] :
            curves = [c \in 1..k |-> ArrangeCurve(c - 1, sps[c][1], sps[c][2], sps[c][3])]
    /\ orig = curves
    /\ call = [op |-> "none"]
    /\ ret = None
    /\ NoSearch

\* A call getCurvesArrangedByDist(curves) on the curves of the scene, of
\* which line 487 needs one: curves becomes the list returned.
Arrange ==
    /\ call.op = "none"
    /\ Len(curves) >= 1
    /\ \E out \in {getCurvesArrangedByDist(curves)} :
          /\ curves' = out
          /\ ret' = "returned"
          /\ call' = [op |-> "getCurvesArrangedByDist"]
    /\ UNCHANGED <<orig, searchPtsList, coFind, searchResult>>

\* A call joinSegs(curves, optimized, straight) on the curves of the scene.
JoinAny ==
    /\ call.op = "none"
    /\ \E optimized \in BOOLEAN, straight \in BOOLEAN :
       \E out \in {joinSegsOptimized(curves, optimized, straight)} :
          /\ curves' = out.curves
          /\ ret' = out.ret
          /\ call' = [op |-> "joinSegs", optimized |-> optimized,
                      straight |-> straight, trace |-> out.trace]
    /\ UNCHANGED <<orig, searchPtsList, coFind, searchResult>>

NextArrange == Arrange \/ JoinAny

SpecArrange == InitArrange /\ [][NextArrange]_vars

Arranged == call.op = "getCurvesArrangedByDist"

\* The world positions of the start and of the end of a curve.
StartOf(c) == ToWorld(c.matrix_world, c.splines[1].bezier_points[1].co)

EndOf(c) == ToWorld(c.matrix_world, OpenEnd(Last(c.splines)).co)

\* The least squared distance from an end of curve c to a point of refs.
EndDist2(c, refs) ==
    CHOOSE d \in { Len2(VSub(e, r)) : e \in {StartOf(c), EndOf(c)}, r \in refs } :
       \A e \in {StartOf(c), EndOf(c)}, r \in refs : d <= Len2(VSub(e, r))

\* The (1-based) place of a curve in the list the call was given.
InputIdx(c) == CHOOSE i \in 1..Len(orig) : orig[i].name = c.name

\* The points the curve of place p of the result was measured from: the
\* end of the curve before it, and for the second place both ends of the
\* first curve.
RefsOf(p) ==
    IF p = 2 THEN {StartOf(curves[1]), EndOf(curves[1])} ELSE {EndOf(curves[p - 1])}

\* The result is a permutation of the input that starts with its first curve.
ArrangedIsPermutation ==
    /\ Len(curves) = Len(orig)
    /\ \A i \in 1..Len(orig) : \E p \in 1..Len(curves) : curves[p].name = orig[i].name
    /\ curves[1].name = orig[1].name

\* C18, as claimed: getCurvesArrangedByDist returns a permutation of its
\* input that starts with curves[0], and every later curve is, of the curves
\* not placed before it, one that has an end nearest to the end of the curve
\* placed before it (for the second place: to either end of the first
\* curve), the earliest such curve of the input.
C18_AsClaimed ==
    Arranged =>
       /\ ArrangedIsPermutation
       /\ \A p \in 2..Len(curves) : \A q \in p..Len(curves) :
             /\ EndDist2(curves[p], RefsOf(p)) <= EndDist2(curves[q], RefsOf(p))
             /\ EndDist2(curves[p], RefsOf(p)) = EndDist2(curves[q], RefsOf(p))
                   => InputIdx(curves[p]) <= InputIdx(curves[q])

\* c is, of the curves of places p and later, the earliest of the input
\* among those with an end nearest to a point of refs.
EarliestNearest(c, p, refs) ==
    \A q \in p..Len(curves) :
       /\ EndDist2(c, refs) <= EndDist2(curves[q], refs)
       /\ EndDist2(c, refs) = EndDist2(curves[q], refs) => InputIdx(c) <= InputIdx(curves[q])

\* C18: getCurvesArrangedByDist returns a permutation of its input that
\* starts with curves[0]. Every curve from the third place on is, of the
\* curves not placed before it, the earliest of the input among those with an
\* end nearest to the end of the curve placed before it. The curve of the
\* second place is such a curve for the start of the first curve when some
\* curve has an end nearer to that start than every end is to the first
\* curve's end, and otherwise such a curve for the end of the first curve: a
\* curve near the end wins a tie with a curve as near to the start.
C18_ArrangeNearest ==
    Arranged =>
       /\ ArrangedIsPermutation
       /\ \A p \in 3..Len(curves) : EarliestNearest(curves[p], p, {EndOf(curves[p - 1])})
       /\ Len(curves) >= 2 =>
             IF \E q \in 2..Len(curves) : \A r \in 2..Len(curves) :
                   EndDist2(curves[q], {StartOf(orig[1])}) < EndDist2(curves[r], {EndOf(orig[1])})
             THEN EarliestNearest(curves[2], 2, {StartOf(orig[1])})
             ELSE EarliestNearest(curves[2], 2, {EndOf(orig[1])})

\* Of three curves the third of the input has been placed second although
\* the second of the input has an end as near to an end of the first curve.
C18_Witness ==
    /\ Arranged
    /\ Len(curves) = 3
    /\ curves[2].name = orig[3].name
    /\ EndDist2(curves[2], RefsOf(2)) = EndDist2(curves[3], RefsOf(2))

\* C15: joinSegs called with exactly one curve returns that curve and leaves
\* it as it was, whatever optimized and straight are; called with no curve
\* it returns None.
C15_OneCurveUntouched ==
    (Joined /\ Len(orig) <= 1) =>
       /\ curves = orig
       /\ ret = IF Len(orig) = 1 THEN orig[1].name ELSE None

\* joinSegs has been called with optimized and straight set on one curve
\* whose spline is cyclic, which a join would have opened.
C15_Witness ==
    /\ Joined
    /\ Len(orig) = 1
    /\ call.optimized
    /\ call.straight
    /\ orig[1].splines[1].use_cyclic_u
    /\ ret = orig[1].name

\* joinSegs has been called with no curve.
C15_WitnessNone ==
    /\ Joined
    /\ Len(orig) = 0
    /\ ret = None

\* The join e appends a point after the last point of T: the ends do not
\* coincide and the first point of N does not close T.
JoinAppends(e) ==
    /\ ~StartCoincides(e)
    /\ Len(ResultOf(e).bezier_points) > OpenLen(TargetOf(e))

\* The join e closes T by a new segment: N is a single point that does not
\* coincide with the last point of T and coincides with its first.
JoinClosesByNewSeg(e) ==
    /\ ~StartCoincides(e)
    /\ OpenLen(NextOf(e)) = 1
    /\ EndCoincides(e)

\* C16, as claimed: with straight set, the segment that joins the last point
\* of T to a first point of N that does not coincide with it has kind Vector
\* on the right of its start point and on the left of its end point, also
\* when that segment closes T onto its first point; with straight not set
\* the two kinds are those the points had.
C16_StraightJoinIsVector ==
    \A e \in JoinSteps :
       LET T == TargetOf(e)
           R == ResultOf(e).bezier_points
           k == OpenLen(T)
       IN  /\ (call.straight /\ JoinAppends(e)) =>
                 /\ R[k].handle_right_type = "VECTOR"
                 /\ R[k + 1].handle_left_type = "VECTOR"
           /\ (call.straight /\ JoinClosesByNewSeg(e)) =>
                 /\ ResultOf(e).use_cyclic_u
                 /\ R[Len(R)].handle_right_type = "VECTOR"
                 /\ R[1].handle_left_type = "VECTOR"
           /\ (~call.straight /\ JoinAppends(e)) =>
                 /\ R[k].handle_right_type = OpenEnd(T).handle_right_type
                 /\ R[k + 1].handle_left_type = NextOf(e).bezier_points[1].handle_left_type

(***************************************************************************)
(* joinSegs called on two or three curves of one or two splines            *)
(***************************************************************************)

\* The numbers of curves joined in a call.
JoinManyCounts == {2, 3}

\* The first splines of the curves joined: open from <<0, 0>> to <<0, 4>>,
\* cyclic from <<0, 4>>, and a single point.
JoinManySpecs ==
    { <<2, FALSE, <<0, 0>>, <<0, 4>>>>,
      <<2, TRUE, <<0, 4>>, <<0, 0>>>>,
      <<1, FALSE, <<0, 0>>, <<0, 0>>>> }

\* Every curve has, or has not, a second spline of its own.
InitJoinMany ==
    /\ \E k \in JoinManyCounts :
         \E sps \in [1..k -> JoinManySpecs], extras \in [1..k -> BOOLEAN] :
            curves = [c \in 1..k |-> JoinCurve(c - 1, sps[c], extras[c])]
    /\ orig = curves
    /\ call = [op |-> "none"]
    /\ ret = None
    /\ NoSearch

SpecJoinMany == InitJoinMany /\ [][NextJoin]_vars

\* The number of splines of the curves before the call.
SplineCounts == [c \in 1..Len(orig) |-> Len(orig[c].splines)]

\* The number of splines of the target before curve c (1-based, c >= 2) of
\* the call is joined, going by the claimed count.
SplinesBefore(c) == SumSeq(SubSeq(SplineCounts, 1, c - 1)) - (c - 2)

\* Spline new of the result is spline old of the consumed curve with matrix
\* mw: the same number of points, in the same places in world space and in
\* the same order, with the same handle kinds, and the same cyclic flag.
SameSpline(new, old, mw) ==
    /\ new.use_cyclic_u = old.use_cyclic_u
    /\ Len(new.bezier_points) = Len(old.bezier_points)
    /\ \A i \in 1..Len(old.bezier_points) :
          /\ ToWorld(curves[1].matrix_world, new.bezier_points[i].co)
                = ToWorld(mw, old.bezier_points[i].co)
          /\ new.bezier_points[i].handle_left_type = old.bezier_points[i].handle_left_type
          /\ new.bezier_points[i].handle_right_type = old.bezier_points[i].handle_right_type

\* The curves but the first are removed and the target has the sum of the
\* spline counts less one for every curve joined.
JoinedCount ==
    /\ Len(curves) = 1
    /\ curves[1].name = orig[1].name
    /\ ret = orig[1].name
    /\ Len(curves[1].splines) = SumSeq(SplineCounts) - (Len(orig) - 1)

\* C17, as claimed: after joinSegs of two or more curves (optimized not set)
\* the result has the sum of the curves' spline counts less one for every
\* curve joined, every spline but the first of every consumed curve is a
\* spline of the result with the same points, kinds and cyclic flag, in the
\* original order, and the consumed curves are removed.
C17_AsClaimed ==
    (Joined /\ Len(orig) >= 2) =>
       /\ JoinedCount
       /\ \A c \in 2..Len(orig) : \A s \in 2..SplineCounts[c] :
             SameSpline(curves[1].splines[SplinesBefore(c) + s - 1],
                        orig[c].splines[s], orig[c].matrix_world)

\* C17: as claimed but for the last spline of a consumed curve that is not
\* the last curve of the call: the next curve is joined to that spline, whose
\* points are the first points of the spline it becomes.
C17_JoinKeepsOtherSplines ==
    (Joined /\ Len(orig) >= 2) =>
       /\ JoinedCount
       /\ \A c \in 2..Len(orig) : \A s \in 2..SplineCounts[c] :
             LET new == curves[1].splines[SplinesBefore(c) + s - 1]
                 old == orig[c].splines[s]
             IN  IF c = Len(orig) \/ s < SplineCounts[c]
                 THEN SameSpline(new, old, orig[c].matrix_world)
                 ELSE /\ Len(new.bezier_points) >= Len(old.bezier_points)
                      /\ \A i \in 1..Len(old.bezier_points) :
                            ToWorld(curves[1].matrix_world, new.bezier_points[i].co)
                               = ToWorld(orig[c].matrix_world, old.bezier_points[i].co)

\* Three curves of two splines each have been joined: the target has four
\* splines, and the second spline of the second curve, to which the
\* third curve was joined, has been opened and has gained points.
C17_Witness ==
    /\ Joined
    /\ Len(orig) = 3
    /\ SplineCounts = <<2, 2, 2>>
    /\ Len(curves[1].splines) = 4
    /\ ~curves[1].splines[3].use_cyclic_u
    /\ Len(curves[1].splines[3].bezier_points) > Len(orig[2].splines[2].bezier_points)
    /\ SameSpline(curves[1].splines[4], orig[3].splines[2], orig[3].matrix_world)

(***************************************************************************)
(* The callers of getTForPt: setClickLocSafe and insertBezierPts           *)
(***************************************************************************)

\* getCtrlPtsForSeg(obj, splineIdx, segIdx), lines 2540-2549: the four
\* control points of the segment in world space, <<>> for None.
getCtrlPtsForSeg(obj, splineIdx, segIdx) ==
    LET spline == At(obj.splines, splineIdx)
        bpts == spline.bezier_points
        segEndIdx == getAdjIdx(Len(bpts), spline.use_cyclic_u, segIdx, 1)
        ws(v) == ToWorld(obj.matrix_world, v)
    IN  IF segEndIdx = <<>> THEN <<>>
        ELSE <<ws(At(bpts, segIdx).co), ws(At(bpts, segIdx).handle_right),
               ws(At(bpts, segEndIdx[1]).handle_left), ws(At(bpts, segEndIdx[1]).co)>>

\* A SelectCurveInfo as __init__ leaves it (lines 2756-2760): _ctrlIdx,
\* _clickLoc and _t are None, written <<>>; a value v is <<v>>.
NoSel == [ctrlIdx |-> <<>>, clickLoc |-> <<>>, t |-> <<>>]

\* setClickLocSafe(clickLoc, lowerT, higherT) on a SelectCurveInfo sel whose
\* segment has control points ctrlPts, lowerT and higherT in thousandths: the
\* outcomes it can have. Comparing None with a number raises TypeError,
\* _clickLoc and _t having been set.
setClickLocSafe(sel, ctrlPts, clickLoc, lowerT, higherT) ==
    { IF t = <<>>
      THEN [sel |-> [sel EXCEPT !.clickLoc = <<clickLoc>>, !.t = <<>>], ret |-> "raised"]
      ELSE IF t[1] < lowerT \/ t[1] > higherT
           THEN [sel |-> [ctrlIdx |-> IF t[1] < lowerT THEN <<1>> ELSE <<4>>,
                          clickLoc |-> <<>>, t |-> <<>>],
                 ret |-> "returned"]
           ELSE [sel |-> [sel EXCEPT !.clickLoc = <<clickLoc>>, !.t = t], ret |-> "returned"] :
      t \in getTForPt(ctrlPts, clickLoc) }

\* The places clicked for a segment: points of it, and a point away from it.
ClickLocs(ctrlPts) ==
    { OnSeg(ctrlPts, <<r>>)[1] : r \in 1..(TDen - 1) } \cup {OffSeg}

\* A click on a segment of the studied spline (line 3502).
SetClickLoc ==
    /\ call.op = "none"
    /\ \E splineIdx \in {i \in 0..1 : At(curves[1].splines, i) # OtherSpline} :
       \E segIdx \in 0..(Len(At(curves[1].splines, splineIdx).bezier_points) - 1) :
       \E ctrlPts \in {getCtrlPtsForSeg(curves[1], splineIdx, segIdx)} \ {<<>>} :
       \E clickLoc \in ClickLocs(ctrlPts) :
       \E out \in setClickLocSafe(NoSel, ctrlPts, clickLoc, 0, 1000) :
          /\ ret' = out.ret
          /\ call' = [op |-> "setClickLocSafe", splineIdx |-> splineIdx,
                      segIdx |-> segIdx, clickLoc |-> clickLoc, sel |-> out.sel]
    /\ UNCHANGED <<curves, orig, searchPtsList, coFind, searchResult>>

NextRecover == Insert \/ SetClickLoc

SpecRecover == InitInsert /\ [][NextRecover]_vars

Clicked == call.op = "setClickLocSafe"

\* getTForPt finds no parameter for the first anchor given to
\* insertBezierPts on an existing segment.
InsertNoParam ==
    /\ Inserted
    /\ call.cos # <<>>
    /\ getCtrlPtsForSeg(orig[1], call.splineIdx, call.startIdx) # <<>>
    /\ <<>> \in getTForPt(getCtrlPtsForSeg(orig[1], call.splineIdx, call.startIdx),
                          call.cos[1])

\* getTForPt finds no parameter for the place clicked.
ClickNoParam ==
    /\ Clicked
    /\ <<>> \in getTForPt(getCtrlPtsForSeg(orig[1], call.splineIdx, call.segIdx),
                          call.clickLoc)

\* C19, as claimed: when getTForPt yields None, setClickLocSafe returns with
\* an end point selected (_ctrlIdx 1 or 4) and no click location, and
\* insertBezierPts returns with the curve exactly as it was; neither raises.
C19_NoParamRecovered ==
    /\ InsertNoParam => (ret = "returned" /\ curves = orig)
    /\ ClickNoParam =>
          /\ ret = "returned"
          /\ call.sel.ctrlIdx \in {<<1>>, <<4>>}
          /\ call.sel.clickLoc = <<>>
          /\ call.sel.t = <<>>

(***************************************************************************)
(* getPartialSeg and getPtFromT on parameters that are fractions           *)
(*                                                                         *)
(* A segment is split at t = tn / SplitDen and its pieces are evaluated at *)
(* u / t and (u - t) / (1 - t) for u = un / SplitDen. The coordinates of   *)
(* the segment are multiples of SplitDen^3, so the control points of the   *)
(* pieces are integers; a point of a curve at the parameter n / d is kept  *)
(* as its numerator over d^3. One unit of length is 0.00005.               *)
(***************************************************************************)

\* The parameters of a split are the multiples of 1 / SplitDen in [0, 1].
SplitDen == 4

SplitDen3 == SplitDen * SplitDen * SplitDen

\* 1e-4, in units of 0.00005.
SplitTol == DEF_ERR_MARGIN

\* getPtFromT(p0, p1, p2, p3, t) for t = n / d, times d^3.
getPtFromTAt(c, n, d) ==
    [i \in 1..Len(c[1]) |->
        (d - n) * (d - n) * (d - n) * c[1][i] + 3 * (d - n) * (d - n) * n * c[2][i]
          + 3 * (d - n) * n * n * c[3][i] + n * n * n * c[4][i]]

\* A mutant of getPartialSegAt: every segment is split as a straight one is.
getPartialSegLinear(seg, a, b, d) ==
    LET dim == 1..Len(seg[1])
        pt0 == [i \in dim |-> ((d - a) * seg[1][i] + a * seg[3][i]) \div d]
        pt1 == [i \in dim |-> ((d - b) * seg[1][i] + b * seg[3][i]) \div d]
    IN  <<pt0, pt0, pt1, pt1>>

\* getPartialSeg(seg, t0, t1) for t0 = a / d <= t1 = b / d, on a segment
\* whose coordinates are multiples of d^3.
getPartialSegAt(seg, a, b, d) ==
    LET ua == d - a
        ub == d - b
        dim == 1..Len(seg[1])
        p(k) == [i \in dim |-> seg[k][i] \div (d * d * d)]
        qa == [i \in dim |-> p(1)[i] * ua * ua + p(2)[i] * 2 * a * ua + p(3)[i] * a * a]
        qb == [i \in dim |-> p(1)[i] * ub * ub + p(2)[i] * 2 * b * ub + p(3)[i] * b * b]
        qc == [i \in dim |-> p(2)[i] * ua * ua + p(3)[i] * 2 * a * ua + p(4)[i] * a * a]
        qd == [i \in dim |-> p(2)[i] * ub * ub + p(3)[i] * 2 * b * ub + p(4)[i] * b * b]
    IN  IF seg[1] = seg[2] /\ seg[3] = seg[4]
        THEN LET pt0 == [i \in dim |-> (ua * seg[1][i] + a * seg[3][i]) \div d]
                 pt1 == [i \in dim |-> (ub * seg[1][i] + b * seg[3][i]) \div d]
             IN  <<pt0, pt0, pt1, pt1>>
        ELSE <<[i \in dim |-> qa[i] * ua + qc[i] * a],
               [i \in dim |-> qa[i] * ub + qc[i] * b],
               [i \in dim |-> qb[i] * ua + qd[i] * a],
               [i \in dim |-> qb[i] * ub + qd[i] * b]>>

\* v times k.
VScale(v, k) == [i \in 1..Len(v) |-> v[i] * k]

\* The segments split: from the origin to <<8, 0, 2>>, each handle on its
\* anchor or off it; with both handles on their anchors the segment is the
\* straight one of lines 1432-1435.
SplitSegs ==
    { <<VScale(<<0, 0, 0>>, SplitDen3), VScale(h1, SplitDen3),
        VScale(h2, SplitDen3), VScale(<<8, 0, 2>>, SplitDen3)>> :
      h1 \in {<<0, 0, 0>>, <<2, 4, 0>>, <<-2, 2, 2>>},
      h2 \in {<<8, 0, 2>>, <<6, 4, 2>>, <<10, -2, 0>>} }

InitSplit ==
    /\ \E seg \in SplitSegs, tn \in 0..SplitDen, un \in 0..SplitDen :
          call = [op |-> "none", seg |-> seg, t |-> tn, u |-> un]
    /\ ret = None
    /\ curves = <<>>
    /\ orig = <<>>
    /\ NoSearch

\* The segment is split at t: getPartialSeg(seg, 0, t) and
\* getPartialSeg(seg, t, 1), as insertBezierPts calls them (lines 284-285).
Split ==
    /\ call.op = "none"
    /\ call' = [op |-> "getPartialSeg", seg |-> call.seg, t |-> call.t, u |-> call.u,
                first |-> getPartialSegAt(call.seg, 0, call.t, SplitDen),
                second |-> getPartialSegAt(call.seg, call.t, SplitDen, SplitDen)]
    /\ ret' = "returned"
    /\ UNCHANGED <<curves, orig, searchPtsList, coFind, searchResult>>

NextSplit == Split

SpecSplit == InitSplit /\ [][NextSplit]_vars

SplitDone == call.op = "getPartialSeg"

\* The segment is the straight one that getPartialSeg treats apart.
StraightSeg == call.seg[1] = call.seg[2] /\ call.seg[3] = call.seg[4]

\* The vector num / den is within SplitTol of the vector v, in every
\* coordinate (the distance is then within SplitTol times the square root
\* of three, and beyond SplitTol when one coordinate is).
Near(num, den, v) ==
    \A i \in 1..Len(v) : Abs(num[i] - v[i] * den) <= SplitTol * den

\* The point of the whole segment at n / SplitDen.
WholeAt(n) ==
    [i \in 1..3 |-> getPtFromTAt(call.seg, n, SplitDen)[i] \div SplitDen3]

\* The two pieces meet, at the point of the segment at t.
PiecesMeetAtT ==
    /\ call.first[4] = call.second[1]
    /\ Near(call.first[4], 1, WholeAt(call.t))

\* The piece that holds u, evaluated at u's parameter in the piece, gives
\* the point of the segment at u.
PiecesReproduce ==
    /\ (call.u <= call.t /\ call.t > 0) =>
          Near(getPtFromTAt(call.first, call.u, call.t),
               call.t * call.t * call.t, WholeAt(call.u))
    /\ (call.u >= call.t /\ call.t < SplitDen) =>
          Near(getPtFromTAt(call.second, call.u - call.t, SplitDen - call.t),
               (SplitDen - call.t) * (SplitDen - call.t) * (SplitDen - call.t),
               WholeAt(call.u))

\* C20, as claimed: for every segment, the straight one with its handles on
\* its anchors included, and every t, the pieces getPartialSeg(S, 0, t) and
\* getPartialSeg(S, t, 1) meet at getPtFromT(S, t), and the first evaluated
\* at u / t (u <= t) or the second at (u - t) / (1 - t) (u >= t) gives
\* getPtFromT(S, u) within 1e-4.
C20_AsClaimed == SplitDone => (PiecesMeetAtT /\ PiecesReproduce)

\* C20: what is claimed holds of every segment that has a handle off its
\* anchor. The straight segment with both handles on their anchors is split
\* at the fraction t of the line from its first anchor to its last, and its
\* pieces are straight segments with their handles on their anchors.
C20_SplitReproducesSeg ==
    SplitDone =>
       IF StraightSeg
       THEN LET q == [i \in 1..3 |->
                        ((SplitDen - call.t) * call.seg[1][i] + call.t * call.seg[4][i])
                           \div SplitDen]
            IN  /\ call.first = <<call.seg[1], call.seg[1], q, q>>
                /\ call.second = <<q, q, call.seg[4], call.seg[4]>>
       ELSE PiecesMeetAtT /\ PiecesReproduce

\* A segment with its handles off their anchors has been split at a quarter
\* and the second piece evaluated at a third gives its point at one half.
C20_Witness ==
    /\ SplitDone
    /\ ~StraightSeg
    /\ call.seg[1] # call.seg[2]
    /\ call.seg[3] # call.seg[4]
    /\ call.t = 1
    /\ call.u = 2
    /\ Near(getPtFromTAt(call.second, 1, 3), 27, WholeAt(2))
    /\ call.second[1] # call.seg[1]

\* The straight segment has been split at a quarter: its pieces meet a
\* quarter of the way along it, which is not its point at t = 1/4.
C20_WitnessStraight ==
    /\ SplitDone
    /\ StraightSeg
    /\ call.t = 1
    /\ call.first[4] # WholeAt(1)

(***************************************************************************)
(* getInterpolatedVertsCo                                                  *)
(*                                                                         *)
(* The polylines have sides parallel to the axes, so the length of a side  *)
(* is an integer. Lengths along the polyline are kept times numDivs and    *)
(* the points returned are kept times numDivs, which makes the division    *)
(* of line 1460 exact.                                                     *)
(***************************************************************************)

\* (b - a).length for two points of a side parallel to an axis.
SideLen(a, b) == SumSeq([i \in 1..Len(a) |-> Abs(b[i] - a[i])])

\* The lengths of the sides of a polyline.
SideLens(curvePts) ==
    [i \in 1..(Len(curvePts) - 1) |-> SideLen(curvePts[i], curvePts[i + 1])]

\* v times k, for a point v.
TimesN(v, k) == [i \in 1..Len(v) |-> v[i] * k]

\* Lines 1470-1476, the while loop: actualLen (times numDivs) and vertIdx
\* when it ends for the target length target (times numDivs), and whether it
\* ran at all. Reading past the last point is an IndexError.
RECURSIVE WalkTo(_, _, _, _, _, _)
WalkTo(curvePts, numDivs, target, actualLen, vertIdx, ran) ==
    IF Abs(actualLen - target) < DEF_ERR_MARGIN * numDivs \/ actualLen >= target
    THEN [actualLen |-> actualLen, vertIdx |-> vertIdx, ran |-> ran, raised |-> FALSE]
    ELSE IF vertIdx + 1 >= Len(curvePts)
         THEN [actualLen |-> actualLen, vertIdx |-> vertIdx, ran |-> ran, raised |-> TRUE]
         ELSE WalkTo(curvePts, numDivs, target,
                     actualLen + numDivs * SideLen(At(curvePts, vertIdx),
                                                   At(curvePts, vertIdx + 1)),
                     vertIdx + 1, TRUE)

\* A mutant of DivPts: the walk is not taken back after a point has been
\* interpolated.
RECURSIVE DivPtsNoRevert(_, _, _, _, _, _, _, _)
DivPtsNoRevert(curvePts, numDivs, curveLength, i, actualLen, vertIdx, bound, vertCos) ==
    IF i >= numDivs THEN [vertCos |-> vertCos, raised |-> FALSE]
    ELSE CHOOSE r \in
      { IF w.raised THEN [vertCos |-> vertCos, raised |-> TRUE]
        ELSE IF Abs(w.actualLen - i * curveLength) < DEF_ERR_MARGIN * numDivs
        THEN DivPtsNoRevert(curvePts, numDivs, curveLength, i + 1, w.actualLen, w.vertIdx,
                    bound \/ w.ran,
                    Append(vertCos, TimesN(At(curvePts, w.vertIdx), numDivs)))
        ELSE IF ~(bound \/ w.ran) THEN [vertCos |-> vertCos, raised |-> TRUE]
        ELSE DivPtsNoRevert(curvePts, numDivs, curveLength, i + 1, w.actualLen, w.vertIdx,
                    TRUE,
                    Append(vertCos, TimesN(At(curvePts, w.vertIdx), numDivs))) :
        w \in {WalkTo(curvePts, numDivs, i * curveLength, actualLen, vertIdx, FALSE)} } : TRUE

\* Lines 1466-1489, the loop over the divisions from i on. bound tells
\* whether vertCo and nextVertCo have been assigned (they are the points
\* vertIdx - 1 and vertIdx after a walk). On a side parallel to an axis
\* (nextVertCo - vertCo) / its length is a unit vector, and the point at
\* diff before nextVertCo is, times numDivs, nextVertCo * numDivs less that
\* unit vector times (actualLen - targetLen) * numDivs.
RECURSIVE DivPts(_, _, _, _, _, _, _, _)
DivPts(curvePts, numDivs, curveLength, i, actualLen, vertIdx, bound, vertCos) ==
    IF i >= numDivs THEN [vertCos |-> vertCos, raised |-> FALSE]
    ELSE CHOOSE r \in
      { IF w.raised THEN [vertCos |-> vertCos, raised |-> TRUE]
        ELSE IF Abs(w.actualLen - i * curveLength) < DEF_ERR_MARGIN * numDivs
        THEN DivPts(curvePts, numDivs, curveLength, i + 1, w.actualLen, w.vertIdx,
                    bound \/ w.ran,
                    Append(vertCos, TimesN(At(curvePts, w.vertIdx), numDivs)))
        ELSE IF ~(bound \/ w.ran) THEN [vertCos |-> vertCos, raised |-> TRUE]
        ELSE LET vertCo == At(curvePts, w.vertIdx - 1)
                 nextVertCo == At(curvePts, w.vertIdx)
                 len == SideLen(vertCo, nextVertCo)
                 diff == w.actualLen - i * curveLength
                 co == [k \in 1..Len(vertCo) |->
                          nextVertCo[k] * numDivs
                             - ((nextVertCo[k] - vertCo[k]) * diff) \div len]
             IN  DivPts(curvePts, numDivs, curveLength, i + 1,
                        w.actualLen - numDivs * len, w.vertIdx - 1, TRUE,
                        Append(vertCos, co)) :
        w \in {WalkTo(curvePts, numDivs, i * curveLength, actualLen, vertIdx, FALSE)} } : TRUE

\* getInterpolatedVertsCo(curvePts, numDivs): the points returned, times
\* numDivs, and whether the call raised.
getInterpolatedVertsCo(curvePts, numDivs) ==
    LET curveLength == SumSeq(SideLens(curvePts))
        first == TimesN(curvePts[1], numDivs)
    IN  IF floatCmpWithMargin(curveLength, 0)
        THEN [vertCos |-> [i \in 1..numDivs |-> first], raised |-> FALSE]
        ELSE CHOOSE r \in
               { IF d.raised THEN d
                 ELSE IF ~vectCmpWithMargin(curvePts[1], Last(curvePts))
                 THEN [vertCos |-> Append(d.vertCos, TimesN(Last(curvePts), numDivs)),
                       raised |-> FALSE]
                 ELSE d :
                 d \in {DivPts(curvePts, numDivs, curveLength, 1, 0, 0, FALSE, <<first>>)} } : TRUE

\* The sides a polyline is drawn with, the most sides of a polyline, and the
\* most divisions asked for.
PolySides == {<<3, 0>>, <<0, 3>>, <<-3, 0>>, <<0, -3>>, <<1, 0>>, <<0, 0>>}

MaxSides == 3

MaxDivs == 3

PolyStart == <<1, 2>>

\* The polyline that starts at PolyStart and has the sides ss.
RECURSIVE PolyFrom(_, _)
PolyFrom(pt, ss) ==
    IF ss = <<>> THEN <<pt>> ELSE <<pt>> \o PolyFrom(VAdd(pt, ss[1]), Tail(ss))

Polylines == {PolyFrom(PolyStart, ss) : ss \in SeqsUpTo(PolySides, MaxSides) \ {<<>>}}

\* A call of getInterpolatedVertsCo is about to be made.
InitResample ==
    /\ \E curvePts \in Polylines, numDivs \in 2..MaxDivs :
          call = [op |-> "none", curvePts |-> curvePts, numDivs |-> numDivs]
    /\ ret = None
    /\ curves = <<>>
    /\ orig = <<>>
    /\ NoSearch

\* getInterpolatedVertsCo(curvePts, numDivs) is called.
Resample ==
    /\ call.op = "none"
    /\ \E r \in {getInterpolatedVertsCo(call.curvePts, call.numDivs)} :
          /\ call' = [op |-> "getInterpolatedVertsCo", curvePts |-> call.curvePts,
                      numDivs |-> call.numDivs, vertCos |-> r.vertCos]
          /\ ret' = IF r.raised THEN "raised" ELSE "returned"
    /\ UNCHANGED <<curves, orig, searchPtsList, coFind, searchResult>>

NextResample == Resample

SpecResample == InitResample /\ [][NextResample]_vars

Resampled == call.op = "getInterpolatedVertsCo"

\* The total length of the polyline of the call.
PolyLength == SumSeq(SideLens(call.curvePts))

\* The point, times numDivs, at the arc length s / numDivs from the first
\* point of the polyline pts.
RECURSIVE ArcPt(_, _, _)
ArcPt(pts, s, numDivs) ==
    IF Len(pts) = 1 THEN TimesN(pts[1], numDivs)
    ELSE LET len == SideLen(pts[1], pts[2])
         IN  IF s <= len * numDivs /\ len > 0
             THEN [k \in 1..Len(pts[1]) |->
                      pts[1][k] * numDivs + ((pts[2][k] - pts[1][k]) * s) \div len]
             ELSE ArcPt(Tail(pts), s - len * numDivs, numDivs)

\* The returned point v (times numDivs) coincides within the tolerance with
\* the point p (times numDivs).
CoincideN(v, p) ==
    \A k \in 1..Len(v) : Abs(v[k] - p[k]) < DEF_ERR_MARGIN * call.numDivs

\* The first point returned is points[0].
FirstIsFirst == call.vertCos[1] = TimesN(call.curvePts[1], call.numDivs)

\* The last point returned coincides with points[-1].
LastIsLast == CoincideN(Last(call.vertCos), TimesN(Last(call.curvePts), call.numDivs))

\* The points between the first and the last returned lie at the arc lengths
\* i * (total length / numDivs).
BetweenAtArcs ==
    \A k \in 2..(Len(call.vertCos) - 1) :
       CoincideN(call.vertCos[k],
                 ArcPt(call.curvePts, (k - 1) * PolyLength, call.numDivs))

\* The polyline of the call is closed: its ends coincide.
ClosedPoly == vectCmpWithMargin(call.curvePts[1], Last(call.curvePts))

\* C21: for every polyline of non-zero length, open or closed, and every
\* numDivs >= 2 getInterpolatedVertsCo returns points of which the first is
\* points[0], the last coincides with points[-1], and the ones in between lie
\* at the arc lengths i * (length / numDivs).
C21_AsClaimed ==
    (Resampled /\ PolyLength > 0) =>
        /\ ret = "returned"
        /\ FirstIsFirst
        /\ LastIsLast
        /\ BetweenAtArcs

\* What holds of getInterpolatedVertsCo: the call returns, the first point
\* is points[0], every point but the first and the last is at its arc length,
\* and the last is points[-1] for an open polyline and the point at the arc
\* length (numDivs - 1) * (length / numDivs) for a closed one.
C21_OpenEndsOnLast ==
    (Resampled /\ PolyLength > 0) =>
        /\ ret = "returned"
        /\ FirstIsFirst
        /\ BetweenAtArcs
        /\ ~ClosedPoly => (LastIsLast /\ Len(call.vertCos) = call.numDivs + 1)
        /\ ClosedPoly =>
              /\ Len(call.vertCos) = call.numDivs
              /\ CoincideN(Last(call.vertCos),
                           ArcPt(call.curvePts, (call.numDivs - 1) * PolyLength,
                                 call.numDivs))

\* A closed polyline, longer than the tolerance, has been divided.
C21_WitnessClosed ==
    Resampled /\ ClosedPoly /\ PolyLength >= 3 /\ ~LastIsLast

(***************************************************************************)
(* getSegLen                                                               *)
(*                                                                         *)
(* The recursion is run one call at a time, depth first as the interpreter *)
(* runs it: call.stack holds the calls still to be made, each with its     *)
(* interval [t1, t2] = [n / 2^depth, (n + 1) / 2^depth]. The segments lie  *)
(* on one axis, so that the lengths are integers; start, mid and end of a  *)
(* call are kept times 8^(depth + 1), which makes getPtFromT exact.        *)
(***************************************************************************)

\* The control points of the segments measured, along the x axis, in units
\* of the size of the segment: one that turns back at t = 1/3, one that
\* returns to its start, a straight one, one that overlaps itself, the
\* first twice as large and one that crosses its start.
SegLenShapes ==
    {<<1, -1, 0, 4>>, <<0, 1, 1, 0>>, <<0, 1, 2, 3>>, <<0, 3, -2, 1>>,
     <<2, -2, 0, 8>>, <<0, 4, -4, 0>>}

\* The sizes of the segments measured are these powers of four; the next
\* power would take getPtFromT beyond the integers of the model.
SegLenScales == 0..4

SegLenSegs ==
    {[i \in 1..4 |-> <<shape[i] * Pow(4, s), 0, 0>>] :
        shape \in SegLenShapes, s \in SegLenScales}

\* Lines 1364-1370 for the call with the interval [n / 2^depth,
\* (n + 1) / 2^depth]: l and l2, times 8^(depth + 1).
ChordsOf(pts, n, depth) ==
    LET d == Pow(2, depth + 1)
        start == getPtFromTAt(pts, 2 * n, d)
        mid == getPtFromTAt(pts, 2 * n + 1, d)
        end == getPtFromTAt(pts, 2 * n + 2, d)
    IN  [l |-> SideLen(start, end),
         l2 |-> SideLen(start, mid) + SideLen(mid, end),
         den |-> d * d * d]

\* Line 1371: l2 - l > error.
MustSubdivide(pts, n, depth) ==
    \E c \in {ChordsOf(pts, n, depth)} : c.l2 - c.l > DEF_ERR_MARGIN * c.den

\* A mutant of MustSubdivide: no call subdivides.
NeverSubdivide(pts, n, depth) == FALSE

\* getSegLen(seg) is about to be called.
InitSegLen ==
    /\ \E pts \in SegLenSegs : call = [op |-> "none", pts |-> pts]
    /\ ret = None
    /\ curves = <<>>
    /\ orig = <<>>
    /\ NoSearch

\* getSegLen(pts) is called: t1 = 0, t2 = 1.
Measure ==
    /\ call.op = "none"
    /\ call' = [op |-> "getSegLen", pts |-> call.pts,
                stack |-> <<[n |-> 0, depth |-> 0]>>, deepest |-> 0, parts |-> <<>>]
    /\ UNCHANGED <<ret, curves, orig, searchPtsList, coFind, searchResult>>

\* Lines 1371-1373: the call on top of the stack finds l2 - l > error and
\* calls getSegLen for the two halves of its interval.
Subdivide ==
    /\ call.op = "getSegLen"
    /\ call.stack # <<>>
    /\ \E f \in {call.stack[1]} :
          /\ MustSubdivide(call.pts, f.n, f.depth)
          /\ call' = [call EXCEPT
                        !.stack = <<[n |-> 2 * f.n, depth |-> f.depth + 1],
                                    [n |-> 2 * f.n + 1, depth |-> f.depth + 1]>>
                                  \o Tail(call.stack),
                        !.deepest = IF f.depth + 1 > @ THEN f.depth + 1 ELSE @]
    /\ UNCHANGED <<ret, curves, orig, searchPtsList, coFind, searchResult>>

\* Line 1374: the call on top of the stack returns l2; when it was the last
\* one, getSegLen has returned the sum of the parts.
ReturnL2 ==
    /\ call.op = "getSegLen"
    /\ call.stack # <<>>
    /\ \E f \in {call.stack[1]} :
          /\ ~MustSubdivide(call.pts, f.n, f.depth)
          /\ call' = [call EXCEPT
                        !.stack = Tail(call.stack),
                        !.parts = Append(@, [l2 |-> ChordsOf(call.pts, f.n, f.depth).l2,
                                             depth |-> f.depth])]
          /\ ret' = IF Tail(call.stack) = <<>> THEN "returned" ELSE ret
    /\ UNCHANGED <<curves, orig, searchPtsList, coFind, searchResult>>

NextSegLen == Measure \/ Subdivide \/ ReturnL2

SpecSegLen == InitSegLen /\ [][NextSegLen]_vars

\* The interpreter runs a call that is pending.
FairSpecSegLen == SpecSegLen /\ WF_vars(NextSegLen)

\* The cap on the depth of the recursion. The claim suggests 64; a segment
\* must be some 4^64 tolerances long for the subdivision to go that deep,
\* which a float holds and an integer of the model does not. The segments
\* of the model are up to 4^4 units long and the cap is taken as
\* much smaller.
SegLenCap == 3

\* C22: the recursion of getSegLen never goes deeper than the cap, and a
\* call at the cap returns its l2 instead of calling getSegLen again.
C22_DepthCapped ==
    call.op = "getSegLen" =>
        /\ call.deepest <= SegLenCap
        /\ \A i \in 1..Len(call.stack) : call.stack[i].depth <= SegLenCap

\* getSegLen has no cap: a segment of the size 4^s that turns back at
\* t = 1/3 is subdivided to the depth s at least.
SegLenTurning(s) == [i \in 1..4 |-> <<(<<1, -1, 0, 4>>)[i] * Pow(4, s), 0, 0>>]

C22_DepthGrowsWithSize ==
    (call.op = "getSegLen" /\ ret = "returned") =>
        \A s \in SegLenScales : call.pts = SegLenTurning(s) => call.deepest >= s

\* getSegLen returns for every segment of the model.
C22_Returns == <>(ret = "returned")

\* A segment has been measured with a recursion deeper than the cap.
C22_WitnessDeep ==
    call.op = "getSegLen" /\ ret = "returned" /\ call.deepest > SegLenCap

(***************************************************************************)
(* getTsForPt and getTForPt on a finer grid                                *)
(*                                                                         *)
(* The parameters are n / den for den = 2^(maxItr - 1), the finest step a  *)
(* search can take before i reaches maxItr; points are kept times den^3,   *)
(* which makes getPtFromT exact. tolerance = 0.000001 is a fiftieth of the *)
(* unit of length.                                                         *)
(***************************************************************************)

\* The maxItr of the searches of the round trip (1000 in the source).
RoundTripItr == 4

RoundTripDen == Pow(2, RoundTripItr - 1)

\* round(t, 3) for t = n / den, in thousandths.
Round3At(n, den) ==
    LET q == (n * 1000) \div den
        r == (n * 1000) % den
    IN  IF 2 * r > den \/ (2 * r = den /\ q % 2 = 1) THEN q + 1 ELSE q

\* getTsForPt, lines 1325-1343: one search, at t = n / den after i
\* iterations, the step t2 = t2n / den still to be halved; co is kept times
\* den^3. The parameters it adds to ts, in thousandths.
RECURSIVE BisectAt(_, _, _, _, _, _, _, _, _)
BisectAt(curve, co, coIdx, dirn, n, t2n, i, den, maxItr) ==
    UNION {
        IF ~(Abs(error) * 50 > den * den * den /\ i < maxItr)
        THEN IF i < maxItr /\ n >= 0 /\ n <= den THEN {Round3At(n, den)} ELSE {}
        ELSE IF t2n % 2 # 0 THEN {}
        ELSE BisectAt(curve, co, coIdx, dirn,
                      IF dirn * error < 0 THEN n + t2n \div 2 ELSE n - t2n \div 2,
                      t2n \div 2, i + 1, den, maxItr) :
        error \in {getPtFromTAt(curve, n, den)[coIdx + 1] - co}}

\* A mutant of getTsForPtAt: only the searches from t = 1 are made.
getTsForPtFromOne(curve, co, coIdx, den, maxItr) ==
    UNION {BisectAt(curve, co, coIdx, dirn, T, den, 0, den, maxItr) :
              T \in {den}, dirn \in {1, -1}}

\* getTsForPt(p0, p1, p2, p3, co, coIdx).
getTsForPtAt(curve, co, coIdx, den, maxItr) ==
    UNION {BisectAt(curve, co, coIdx, dirn, T, den, 0, den, maxItr) :
              T \in {den, 0}, dirn \in {1, -1}}

\* The squared distance of two points kept times den^3, itself times den^4:
\* a coordinate of the segments of the model is a quadratic in t, which
\* times den^2 is an integer.
Dist2At(a, b, den) == Len2([i \in 1..Len(a) |-> (a[i] - b[i]) \div den])

\* getTForPt(curve, testPt), testPt kept times den^3: the parameters found
\* on the three axes and the values the call can return, <<>> for None and
\* <<t>> for t in thousandths. A later parameter replaces the best so far
\* only when it is strictly closer; the order within one axis is the
\* iteration order of a Python set.
getTForPtAt(curve, testPt, den, maxItr) ==
    UNION {
        LET all == ts[1] \cup ts[2] \cup ts[3]
            pt(t) == getPtFromTAt(curve, (t * den) \div 1000, den)
        IN  IF all = {} THEN {[ts |-> ts, retT |-> <<>>]}
            ELSE UNION {
                   {[ts |-> ts, retT |-> <<t>>] :
                       t \in ts[Min({a \in 1..3 : ts[a] \cap best # {}})] \cap best} :
                   best \in {{t \in all : \A u \in all :
                                 Dist2At(testPt, pt(t), den) <= Dist2At(testPt, pt(u), den)}}} :
        ts \in {[a \in 1..3 |-> getTsForPtAt(curve, testPt[a], a - 1, den, maxItr)]}}

\* The control values of one coordinate of the segments of the round trip:
\* 3t, 3 (8t - 3)^2, 3 (8t - 5)^2, a constant and 9 t (1 - t). Every
\* parameter at which one of them takes the value it has at a parameter of
\* the grid is on the grid, so that a search that misses within maxItr
\* iterations misses however long it goes on.
AxisFns ==
    {<<0, 1, 2, 3>>, <<27, -21, -5, 75>>, <<75, -5, -21, 27>>, <<0, 0, 0, 0>>,
     <<0, 3, 3, 0>>}

RoundTripSegs ==
    {[i \in 1..4 |-> <<fx[i], fy[i], fz[i]>>] : fx \in AxisFns, fy \in AxisFns, fz \in AxisFns}

\* getTForPt(S, getPtFromT(S, t)) is about to be called.
InitRoundTrip ==
    /\ \E seg \in RoundTripSegs, n \in 0..RoundTripDen :
          call = [op |-> "none", seg |-> seg, t |-> n]
    /\ ret = None
    /\ curves = <<>>
    /\ orig = <<>>
    /\ NoSearch

\* getTForPt(S, getPtFromT(S, t)) is called.
RoundTrip ==
    /\ call.op = "none"
    /\ \E r \in getTForPtAt(call.seg, getPtFromTAt(call.seg, call.t, RoundTripDen),
                            RoundTripDen, RoundTripItr) :
          call' = [op |-> "getTForPt", seg |-> call.seg, t |-> call.t,
                   ts |-> r.ts, retT |-> r.retT]
    /\ ret' = "returned"
    /\ UNCHANGED <<curves, orig, searchPtsList, coFind, searchResult>>

NextRoundTrip == RoundTrip

SpecRoundTrip == InitRoundTrip /\ [][NextRoundTrip]_vars

RoundTripDone == call.op = "getTForPt"

\* t of the call, in thousandths.
RoundTripT == (call.t * 1000) \div RoundTripDen

\* Every parameter the searches collected lies in [0, 1].
CandidatesInRange == \A a \in 1..3 : \A t \in call.ts[a] : t >= 0 /\ t <= 1000

\* C23: getTForPt(S, getPtFromT(S, t)) returns a parameter t', never None,
\* with |t - t'| < 0.001, and every parameter the searches collect lies in
\* [0, 1].
C23_AsClaimed ==
    RoundTripDone =>
        /\ call.retT # <<>>
        /\ Abs(call.retT[1] - RoundTripT) < 1
        /\ CandidatesInRange

\* No parameter was found on any axis and None was returned, for a point of
\* the curve.
C23_ReturnedNone == RoundTripDone /\ call.retT = <<>>

\* Some coordinate of the segment grows or falls strictly with t over the
\* grid.
MonotoneAxis ==
    \E a \in 1..3 : \E sgn \in {1, -1} :
       \A n \in 0..(RoundTripDen - 1) :
          sgn * (getPtFromTAt(call.seg, n + 1, RoundTripDen)[a]
                   - getPtFromTAt(call.seg, n, RoundTripDen)[a]) > 0

\* What holds of the round trip: the parameters collected lie in [0, 1],
\* and when a coordinate of the segment is strictly monotone the parameter
\* returned is t.
C23_MonotoneRoundTrip ==
    RoundTripDone =>
        /\ CandidatesInRange
        /\ MonotoneAxis => call.retT = <<RoundTripT>>

C23_Witness ==
    RoundTripDone /\ MonotoneAxis /\ call.t = 3 /\ call.retT = <<375>>

\* The squared distance between two points of world space.
Dist2(a, b) == Len2(VSub(a, b))

\* The first curve of the call as line 493 leaves it in the first pass of
\* the loop: its last spline opened.
FirstOpened == [orig[1] EXCEPT !.splines = SetLast(@, addLastSeg(Last(@)))]

\* Some curve other than the first has an end strictly nearer to the start
\* of the first curve than every end of those curves is to its end.
NearerToStart ==
    \E q \in 2..Len(orig) : \A r \in 2..Len(orig) :
       EndDist2(orig[q], {StartOf(orig[1])}) < EndDist2(orig[r], {EndOf(orig[1])})

\* C24: on return from getCurvesArrangedByDist the start of every curve
\* after the first is no farther from the end of the curve placed before it
\* than its end is, and the first curve is reversed exactly when some other
\* curve has an end strictly nearer to its start than every end is to its
\* end.
C24_OrientedToPrevious ==
    (Arranged /\ Len(curves) >= 2) =>
       /\ \A p \in 2..Len(curves) :
             Dist2(StartOf(curves[p]), EndOf(curves[p - 1]))
                <= Dist2(EndOf(curves[p]), EndOf(curves[p - 1]))
       /\ curves[1] = IF NearerToStart THEN reverseCurve(FirstOpened) ELSE FirstOpened

\* Of three curves the second was reversed in the first pass, its end being
\* nearer to the end of the first curve than its start, the third was placed
\* second, and the second was placed last with its first end as its start.
C24_Witness ==
    /\ Arranged
    /\ Len(curves) = 3
    /\ ~NearerToStart
    /\ curves[2].name = orig[3].name
    /\ Dist2(EndOf(orig[2]), EndOf(orig[1])) < Dist2(StartOf(orig[2]), EndOf(orig[1]))
    /\ StartOf(curves[3]) = StartOf(orig[2])
    /\ StartOf(curves[3]) # EndOf(curves[3])

(***************************************************************************)
(* getClosestPt2d: from the curves to the feature returned                 *)
(*                                                                         *)
(* A selected segment is [hdls, interp]: whether getBezierDataForSeg gives *)
(* its two end points (it gives [] for the last point of an open spline),  *)
(* and the number of points getInterpSegPts(...)[1:-1] gives. A point of   *)
(* the curves searched is [interp], the same number for the segment that   *)
(* starts at it. Entry k of selObjLocList and of objLocList is named k.    *)
(***************************************************************************)

\* The most selected segments, the most points of the curves searched, and
\* the most interior points of a segment.
MaxSelSegs == 2

MaxObjPts == 2

MaxInterp == 1

SelSegKinds ==
    {[hdls |-> h, interp |-> n] : h \in BOOLEAN, n \in 0..MaxInterp} \
       {[hdls |-> FALSE, interp |-> n] : n \in 1..MaxInterp}

ObjPtKinds == {[interp |-> n] : n \in 0..MaxInterp}

\* The concatenation of the sequences of a sequence.
RECURSIVE Concat(_)
Concat(ss) == IF ss = <<>> THEN <<>> ELSE ss[1] \o Concat(Tail(ss))

\* Lines 2616-2661: for each of the four lists of candidates the entry of
\* selObjLocList or objLocList and the place within it that every candidate
\* comes from, in the order in which the candidates are appended.
CandidatesOf(selSegs, objPts, withHandles, withBezPts, withObjs) ==
    <<Concat([k \in 1..Len(selSegs) |->
                 IF withHandles /\ selSegs[k].hdls
                 THEN [h \in 1..4 |-> [entry |-> k - 1, place |-> h - 1]] ELSE <<>>]),
      Concat([k \in 1..Len(objPts) |->
                 IF withBezPts THEN <<[entry |-> k - 1, place |-> 0]>> ELSE <<>>]),
      Concat([k \in 1..Len(selSegs) |->
                 [n \in 1..selSegs[k].interp |-> [entry |-> k - 1, place |-> n - 1]]]),
      Concat([k \in 1..Len(objPts) |->
                 IF withObjs
                 THEN [n \in 1..objPts[k].interp |-> [entry |-> k - 1, place |-> n - 1]]
                 ELSE <<>>])>>

\* A mutant of FeatureOf: every segment is counted as having one candidate.
FeatureOfByOnes(sr, selObjInterpCounts, objInterpCounts) ==
    LET cntList == IF sr.listIdx \in {0, 2}
                   THEN [i \in 1..Len(selObjInterpCounts) |-> 1]
                   ELSE [i \in 1..Len(objInterpCounts) |-> 1]
        listIdx == findListIdx(cntList, sr.ptIdxInList)
    IN  IF sr.ptIdxInList >= SumSeq(cntList) THEN [tag |-> "IndexError"]
        ELSE [tag |-> RetStr[sr.listIdx + 1], entry |-> listIdx,
              otherInfo |-> IF sr.listIdx = 0 THEN sr.ptIdxInList % 4 ELSE 0]

\* Lines 2685-2714: what getClosestPt2d returns for the search result sr:
\* retId, the entry of selObjLocList or objLocList, and for a handle its
\* place idx % 4 (for the other kinds otherInfo is a location or the
\* segment index again and is left out). findListIdx reads past the end of
\* cntList, an IndexError, exactly when idx is not less than its sum.
FeatureOf(sr, selObjInterpCounts, objInterpCounts) ==
    LET cntList == IF sr.listIdx = 2 THEN selObjInterpCounts
                   ELSE IF sr.listIdx = 0 THEN [i \in 1..Len(selObjInterpCounts) |-> 4]
                   ELSE IF sr.listIdx = 3 THEN objInterpCounts
                   ELSE [i \in 1..Len(objInterpCounts) |-> 1]
        listIdx == findListIdx(cntList, sr.ptIdxInList)
    IN  IF sr.ptIdxInList >= SumSeq(cntList) THEN [tag |-> "IndexError"]
        ELSE [tag |-> RetStr[sr.listIdx + 1], entry |-> listIdx,
              otherInfo |-> IF sr.listIdx = 0 THEN sr.ptIdxInList % 4 ELSE 0]

\* getCtrlIdxFromSearchInfo(info), lines 2737-2740.
getCtrlIdxFromSearchInfo(info) ==
    IF info[1] = "SelHandles" THEN <<(<<0, 2, 3, 5>>)[info[2] + 1]>> ELSE <<>>

\* The screen points of the candidates: the one nearest the cursor, one
\* farther but within the search range, and the others beyond the range.
NearPt == <<2, 0>>

FartherPt == <<12, 16>>

BeyondPt == <<40, 40>>

\* A call of getClosestPt2d: the selected segments, the points of the
\* curves, the three flags, and which candidates (by their place in the
\* k-d tree) are nearest and farther; farther = -1 when there is none.
InitFeature ==
    /\ \E selSegs \in SeqsUpTo(SelSegKinds, MaxSelSegs),
          objPts \in SeqsUpTo(ObjPtKinds, MaxObjPts),
          withHandles \in BOOLEAN, withBezPts \in BOOLEAN, withObjs \in BOOLEAN :
       \E cands \in {CandidatesOf(selSegs, objPts, withHandles, withBezPts, withObjs)} :
       \E near \in 0..(Len(Concat(cands)) - 1), farther \in -1..(Len(Concat(cands)) - 1) :
          /\ near # farther
          /\ call = [op |-> "none", selSegs |-> selSegs, objPts |-> objPts,
                     withHandles |-> withHandles, withBezPts |-> withBezPts,
                     withObjs |-> withObjs, near |-> near, farther |-> farther]
    /\ coFind = <<0, 0>>
    /\ searchPtsList = MakePtsList(<<>>)
    /\ searchResult = [tag |-> "pending"]
    /\ curves = <<>>
    /\ orig = <<>>
    /\ ret = None

\* getClosestPt2d: the lists of candidates are built, searched, and the
\* result chosen is turned into the feature returned.
LocateFeature ==
    /\ call.op = "none"
    /\ \E cands \in {CandidatesOf(call.selSegs, call.objPts, call.withHandles,
                                  call.withBezPts, call.withObjs)} :
       \E ptsList \in {[c \in 1..6 |->
                          IF c > 4 THEN <<>>
                          ELSE [i \in 1..Len(cands[c]) |->
                                  LET flat == SumSeq([b \in 1..(c - 1) |-> Len(cands[b])]) + i - 1
                                  IN  IF flat = call.near THEN NearPt
                                      ELSE IF flat = call.farther THEN FartherPt
                                      ELSE BeyondPt]]} :
       \E kdOrder \in Orders(FindRangeIdxs(ptsList, coFind, SearchRange)) :
       \E m \in {getClosestPt2d(ptsList, coFind, kdOrder)} :
          /\ searchPtsList' = ptsList
          /\ searchResult' =
                IF m.tag = "None" THEN m
                ELSE [tag |-> "feature", sr |-> m.sr,
                      feature |-> FeatureOf(m.sr,
                                     [k \in 1..Len(call.selSegs) |-> call.selSegs[k].interp],
                                     IF call.withObjs
                                     THEN [k \in 1..Len(call.objPts) |-> call.objPts[k].interp]
                                     ELSE <<>>)]
          /\ call' = [call EXCEPT !.op = "getClosestPt2d"]
          /\ ret' = IF m.tag # "None" /\ searchResult'.feature.tag = "IndexError"
                    THEN "raised" ELSE "returned"
    /\ UNCHANGED <<coFind, curves, orig>>

NextFeature == LocateFeature

SpecFeature == InitFeature /\ [][NextFeature]_vars

\* A feature has been looked up for a match.
FeatureFound == call.op = "getClosestPt2d" /\ searchResult.tag = "feature"

\* Where the matched point comes from.
MatchedFrom ==
    CandidatesOf(call.selSegs, call.objPts, call.withHandles, call.withBezPts,
                 call.withObjs)[searchResult.sr.listIdx + 1][searchResult.sr.ptIdxInList + 1]

\* C25: the match returned by getClosestPt2d names the feature that
\* produced the matched point, whatever the numbers of candidates of the
\* segments: the entry of selObjLocList or objLocList the point comes from,
\* for a handle with its place 0..3 in the segment, which
\* getCtrlIdxFromSearchInfo maps to the handles 0, 2, 3, 5.
C25_NamesOwner ==
    FeatureFound =>
       /\ ret = "returned"
       /\ searchResult.feature.entry = MatchedFrom.entry
       /\ searchResult.feature.tag = "SelHandles" =>
             /\ searchResult.feature.otherInfo = MatchedFrom.place
             /\ getCtrlIdxFromSearchInfo(<<"SelHandles", searchResult.feature.otherInfo>>)
                   = <<(<<0, 2, 3, 5>>)[MatchedFrom.place + 1]>>

\* Every selected segment has its four handles among the candidates.
AllWithHandles == \A k \in 1..Len(call.selSegs) : call.selSegs[k].hdls

\* What holds: the feature named is the owner of the matched point when the
\* match is an interior point, when it is an anchor and the curves searched
\* were sampled (withObjs), and when it is a handle and every selected
\* segment has handles.
C25_NamesOwnerWhenCounted ==
    (FeatureFound
        /\ (searchResult.sr.listIdx = 0 => AllWithHandles)
        /\ (searchResult.sr.listIdx = 1 => call.withObjs)) =>
       /\ ret = "returned"
       /\ searchResult.feature.entry = MatchedFrom.entry
       /\ searchResult.feature.tag = "SelHandles" =>
             searchResult.feature.otherInfo = MatchedFrom.place

\* A handle of the second selected segment is matched, the first having
\* none.
C25_WitnessNoHandles ==
    /\ FeatureFound
    /\ searchResult.sr.listIdx = 0
    /\ MatchedFrom.entry = 1
    /\ ~call.selSegs[1].hdls

(***************************************************************************)
(* Subdivision of the selected segments (ModalFlexiEditBezierOp.modal)     *)
(*                                                                         *)
(* A spline is the sequence of its points, a point [of, n]: of = <<>> for  *)
(* point n of the spline as it was, of = <<splineIdx, segIdx>> for the     *)
(* n-th point inserted for the selection made at that segment. curves is   *)
(* the sequence of the splines of the one curve object; a spline also      *)
(* records whether it is cyclic and whether its first segment returns to   *)
(* its start. A SelectCurveInfo is [id, splineIdx, segIdx, subdivCnt,      *)
(* interpPts], segIdx and interpPts being <<>> for None.                   *)
(***************************************************************************)

\* The most selections, and the cap on subdivCnt (100 in the source).
MaxSel == 3

MaxSubdivCnt == 3

OrigPt(n) == [of |-> <<>>, n |-> n]

\* The splines of the curve: three points, or three and two.
SubdivCurves ==
    {[s \in 1..k |-> [pts |-> [n \in 1..(IF s = 1 THEN 3 ELSE 2) |-> OrigPt(n - 1)],
                      use_cyclic_u |-> cyc[s], loop |-> (s = 1 /\ loop)]] :
        k \in 1..2, cyc \in [1..2 -> BOOLEAN], loop \in BOOLEAN}

\* getLastSegIdx for a spline of the model.
LastSegIdxOf(spline) ==
    IF spline.use_cyclic_u THEN Len(spline.pts) - 1 ELSE Len(spline.pts) - 2

\* The segments of the curve cs, as <<splineIdx, segIdx>>.
SegsOf(cs) ==
    {<<s - 1, g>> : s \in 1..Len(cs), g \in 0..2} \cap
       UNION {{<<s - 1, g>> : g \in 0..LastSegIdxOf(cs[s])} : s \in 1..Len(cs)}

\* SelectCurveInfo(obj, splineIdx, ptIdx), lines 2744-2760.
NewSelInfo(seg) ==
    [id |-> seg, splineIdx |-> seg[1], segIdx |-> <<seg[2]>>, subdivCnt |-> 0,
     interpPts |-> <<>>]

\* getPtsAlongBezier for a segment: a polyline along it, which ends where it
\* starts when the segment returns to its start.
PtsAlong(cs, c) ==
    IF cs[c.splineIdx + 1].loop /\ c.segIdx = <<0>>
    THEN PolyFrom(PolyStart, <<<<3, 0>>, <<0, 3>>, <<-3, 0>>, <<0, -3>>>>)
    ELSE PolyFrom(PolyStart, <<<<3, 0>>, <<0, 3>>>>)

\* The number of elements of list[1:-1] for a list of n elements.
InnerCount(n) == IF n >= 2 THEN n - 2 ELSE 0

\* insertBezierPts at the level of the points: addCnt new points, named for
\* the selection id, follow point startIdx of the spline.
InsertedAfter(pts, startIdx, id, addCnt) ==
    SubSeq(pts, 1, startIdx + 1) \o [j \in 1..addCnt |-> [of |-> id, n |-> j - 1]]
       \o SubSeq(pts, startIdx + 2, Len(pts))

\* A mutant of UpdatedSegIdx: the index of a later selection is never
\* changed.
UpdatedSegIdxNever(c1, splineIdx, oldSegIdx, addCnt) == c1

\* updateSegIdx(objName, splineIdx, oldSegIdx, addCnt), lines 2803-2806.
UpdatedSegIdx(c1, splineIdx, oldSegIdx, addCnt) ==
    IF splineIdx = c1.splineIdx /\ oldSegIdx[1] < c1.segIdx[1]
    THEN [c1 EXCEPT !.segIdx = <<@[1] + addCnt>>] ELSE c1

\* Lines 3410-3416 from place k of cis on: infos maps the ids of the
\* selections to the SelectCurveInfos, cs are the splines. subdivSeg
\* (lines 2809-2815) raises for interpPts = None, and insertBezierPts for
\* a segIdx at which no segment of the spline starts.
RECURSIVE SubdivFrom(_, _, _, _)
SubdivFrom(cis, k, infos, cs) ==
    IF k > Len(cis) THEN [infos |-> infos, curves |-> cs, raised |-> FALSE]
    ELSE LET c == infos[cis[k]]
             addCnt == c.subdivCnt - 1
         IN  IF c.subdivCnt > 1
                   /\ (c.interpPts = <<>> \/ c.segIdx[1] > LastSegIdxOf(cs[c.splineIdx + 1]))
             THEN [infos |-> infos, curves |-> cs, raised |-> TRUE]
             ELSE CHOOSE r \in
               { SubdivFrom(cis, k + 1,
                    [id \in DOMAIN infos |->
                        IF id = c.id THEN [c EXCEPT !.subdivCnt = IF @ > 1 THEN 0 ELSE @]
                        ELSE IF \E j \in (k + 1)..Len(cis) : cis[j] = id
                        THEN UpdatedSegIdx(infos[id], c.splineIdx, c.segIdx, addCnt)
                        ELSE infos[id]],
                    [cs EXCEPT ![c.splineIdx + 1].pts =
                        IF n = 0 THEN @ ELSE InsertedAfter(@, c.segIdx[1], c.id, n)]) :
                 n \in { IF c.subdivCnt > 1
                         THEN InnerCount(Len(getInterpolatedVertsCo(c.interpPts[1],
                                                                     c.subdivCnt).vertCos))
                         ELSE 0 } } : TRUE

\* The tool has been started on the curve and some segments are selected.
InitSubdiv ==
    /\ curves \in SubdivCurves
    /\ orig = curves
    /\ \E sel \in SUBSET SegsOf(curves) :
          /\ Cardinality(sel) \in 1..2
          /\ call = [op |-> "modal", subdivMode |-> FALSE,
                     selectCurveInfos |-> {NewSelInfo(seg) : seg \in sel},
                     counts |-> <<>>]
    /\ ret = None
    /\ NoSearch

\* W released, lines 3399-3405: subdivision mode is entered.
EnterSubdivMode ==
    /\ call.op = "modal"
    /\ call.selectCurveInfos # {}
    /\ call' = [call EXCEPT
                  !.subdivMode = TRUE,
                  !.selectCurveInfos =
                      {[c EXCEPT !.subdivCnt = 2, !.interpPts = <<PtsAlong(curves, c)>>] :
                          c \in @}]
    /\ UNCHANGED <<curves, orig, ret, searchPtsList, coFind, searchResult>>

\* The wheel is turned or plus or minus released, lines 3422-3433; the
\* display is refreshed, and getDisplayInfos (lines 2997-2999) raises for a
\* selection with subdivCnt > 1 and interpPts = None.
ChangeSubdivCnt ==
    /\ call.op = "modal"
    /\ call.selectCurveInfos # {}
    /\ call.subdivMode
    /\ \E up \in BOOLEAN :
       \E cis \in {{[c EXCEPT !.subdivCnt =
                        IF up THEN (IF @ < MaxSubdivCnt THEN @ + 1 ELSE @)
                        ELSE (IF @ > 2 THEN @ - 1 ELSE @)] : c \in call.selectCurveInfos}} :
          /\ call' = [call EXCEPT
                        !.selectCurveInfos = cis,
                        !.op = IF \E c \in cis : c.subdivCnt > 1 /\ c.interpPts = <<>>
                               THEN "raised" ELSE @]
          /\ ret' = IF call'.op = "raised" THEN "raised" ELSE ret
    /\ UNCHANGED <<curves, orig, searchPtsList, coFind, searchResult>>

\* A segment that is not selected is clicked with shift held, lines
\* 3459-3482: a SelectCurveInfo for it joins the selection.
ShiftClick ==
    /\ call.op = "modal"
    /\ Cardinality(call.selectCurveInfos) < MaxSel
    /\ \E seg \in SegsOf(curves) :
          /\ \A c \in call.selectCurveInfos : c.id # seg
          /\ call' = [call EXCEPT !.selectCurveInfos = @ \cup {NewSelInfo(seg)}]
    /\ UNCHANGED <<curves, orig, ret, searchPtsList, coFind, searchResult>>

\* SPACE or RET released in subdivision mode, lines 3407-3420: the
\* selections are taken in the order of the set; call.counts keeps the
\* subdivCnt each had.
ConfirmSubdiv ==
    /\ call.op = "modal"
    /\ call.subdivMode
    /\ \E cis \in Orders({c.id : c \in call.selectCurveInfos}) :
       \E r \in {SubdivFrom(cis, 1,
                            [id \in {c.id : c \in call.selectCurveInfos} |->
                                CHOOSE c \in call.selectCurveInfos : c.id = id],
                            curves)} :
          /\ curves' = r.curves
          /\ call' = [op |-> IF r.raised THEN "raised" ELSE "subdivided",
                      subdivMode |-> r.raised,
                      selectCurveInfos |->
                          {IF r.raised THEN r.infos[id] ELSE [r.infos[id] EXCEPT !.segIdx = <<>>] :
                              id \in DOMAIN r.infos},
                      counts |-> [k \in 1..Len(cis) |->
                                    [id |-> cis[k],
                                     subdivCnt |-> (CHOOSE c \in call.selectCurveInfos :
                                                       c.id = cis[k]).subdivCnt]]]
          /\ ret' = IF r.raised THEN "raised" ELSE "returned"
    /\ UNCHANGED <<orig, searchPtsList, coFind, searchResult>>

NextSubdiv == EnterSubdivMode \/ ChangeSubdivCnt \/ ShiftClick \/ ConfirmSubdiv

SpecSubdiv == InitSubdiv /\ [][NextSubdiv]_vars

Subdivided == call.op = "subdivided"

\* The points inserted for the selection id in the spline pts.
NewPtsOf(pts, id) == {i \in 1..Len(pts) : pts[i].of = id}

\* The place of the point n of the spline as it was.
PlaceOf(pts, n) == CHOOSE i \in 1..Len(pts) : pts[i] = OrigPt(n)

\* The selection id has got exactly cnt new points, all in its segment:
\* they follow the point the segment started at.
HasNewPts(id, cnt) ==
    LET pts == curves[id[1] + 1].pts IN
    NewPtsOf(pts, id) = {PlaceOf(pts, id[2]) + j : j \in 1..cnt}

\* C26: when the subdivision is confirmed every selected segment with
\* subdivCnt N >= 2 has got exactly N - 1 new points inside its own
\* segment, and every other selected segment none (the indices of the
\* selections not yet processed having been shifted by the numbers of
\* points inserted before them).
C26_EverySegmentSubdivided ==
    call.op \in {"subdivided", "raised"} =>
       /\ ret = "returned"
       /\ \A k \in 1..Len(call.counts) :
             HasNewPts(call.counts[k].id,
                       IF call.counts[k].subdivCnt >= 2
                       THEN call.counts[k].subdivCnt - 1 ELSE 0)

\* No segment selected returns to its start and every selection was made
\* before subdivision mode was entered.
PlainSelection ==
    /\ \A k \in 1..Len(call.counts) :
          /\ call.counts[k].subdivCnt >= 2
          /\ ~(orig[call.counts[k].id[1] + 1].loop /\ call.counts[k].id[2] = 0)

\* What holds: the claim for segments that do not return to their start,
\* all selected before subdivision mode was entered.
C26_PlainSelectionSubdivided ==
    (Subdivided /\ PlainSelection) =>
       \A k \in 1..Len(call.counts) :
          HasNewPts(call.counts[k].id, call.counts[k].subdivCnt - 1)

\* Two segments of one spline have been subdivided, the earlier one first.
C26_WitnessSameSpline ==
    /\ Subdivided
    /\ PlainSelection
    /\ Len(call.counts) = 2
    /\ call.counts[1].id[1] = call.counts[2].id[1]
    /\ call.counts[1].id[2] < call.counts[2].id[2]
    /\ call.counts[1].subdivCnt = 3

(***************************************************************************)
(* The viewport draw handler of the draw tool (ModalDrawBezierOp)          *)
(*                                                                         *)
(* call.handlers is the set of the handlers registered with SpaceView3D,   *)
(* each named by the number of the draw_handler_add call that returned it; *)
(* drawHandlerRef is <<>> for None.                                        *)
(***************************************************************************)

\* The most calls of draw_handler_add in a run.
MaxAdds == 7

\* A mutant of addDrawHandler: nothing is registered when a handler is
\* referred to already.
addDrawHandlerOnce(st) ==
    IF st.drawHandlerRef # <<>> THEN st
    ELSE [st EXCEPT !.handlers = @ \cup {st.added},
                    !.drawHandlerRef = <<st.added>>,
                    !.added = @ + 1]

\* addDrawHandler, lines 1647-1650.
addDrawHandler(st) ==
    [st EXCEPT !.handlers = @ \cup {st.added},
               !.drawHandlerRef = <<st.added>>,
               !.added = @ + 1]

\* removeDrawHandler, lines 1652-1656.
removeDrawHandler(st) ==
    IF st.drawHandlerRef # <<>>
    THEN [st EXCEPT !.handlers = @ \ {st.drawHandlerRef[1]}, !.drawHandlerRef = <<>>]
    ELSE st

\* The add-on is registered and the tool has not been started.
InitDraw ==
    /\ call = [op |-> "none", handlers |-> {}, drawHandlerRef |-> <<>>,
               running |-> FALSE, loading |-> FALSE, added |-> 0]
    /\ ret = None
    /\ curves = <<>>
    /\ orig = <<>>
    /\ NoSearch

\* invoke, lines 1713-1725; poll (line 1645) lets the tool start only when
\* it is not running.
Invoke ==
    /\ ~call.loading
    /\ ~call.running
    /\ call.added < MaxAdds
    /\ call' = [addDrawHandler([call EXCEPT !.running = TRUE]) EXCEPT !.op = "invoke"]
    /\ UNCHANGED <<ret, curves, orig, searchPtsList, coFind, searchResult>>

\* cancelOp, lines 1658-1663, called by the running tool.
CancelOp ==
    /\ ~call.loading
    /\ call.running
    /\ call' = [removeDrawHandler(call) EXCEPT !.running = FALSE, !.op = "cancelOp"]
    /\ UNCHANGED <<ret, curves, orig, searchPtsList, coFind, searchResult>>

\* loadPreHandler, lines 1690-1692: a file is about to be loaded.
LoadPre ==
    /\ ~call.loading
    /\ call' = [removeDrawHandler(call) EXCEPT !.loading = TRUE, !.op = "loadPreHandler"]
    /\ UNCHANGED <<ret, curves, orig, searchPtsList, coFind, searchResult>>

\* loadPostHandler, lines 1683-1688: the file has been loaded.
LoadPost ==
    /\ call.loading
    /\ call.added < MaxAdds
    /\ call' = [addDrawHandler(call) EXCEPT !.loading = FALSE, !.running = FALSE,
                                            !.op = "loadPostHandler"]
    /\ UNCHANGED <<ret, curves, orig, searchPtsList, coFind, searchResult>>

NextDraw == Invoke \/ CancelOp \/ LoadPre \/ LoadPost

SpecDraw == InitDraw /\ [][NextDraw]_vars

\* C27: across file loads, invoke and cancelOp at most one draw handler is
\* registered at any time, drawHandlerRef refers to the registered handler,
\* and after cancelOp no draw handler of the tool remains registered.
C27_OneDrawHandler ==
    "handlers" \in DOMAIN call =>
       /\ Cardinality(call.handlers) <= 1
       /\ call.handlers # {} => call.drawHandlerRef # <<>> /\ call.drawHandlerRef[1] \in call.handlers
       /\ call.op = "cancelOp" => call.handlers = {}

\* What holds: a handler referred to is registered.
C27_RefIsRegistered ==
    "handlers" \in DOMAIN call =>
       (call.drawHandlerRef # <<>> => call.drawHandlerRef[1] \in call.handlers)

\* The tool has been started after a file was loaded.
C27_WitnessInvokeAfterLoad ==
    /\ "handlers" \in DOMAIN call
    /\ call.op = "invoke"
    /\ Cardinality(call.handlers) = 2

(***************************************************************************)
(* Dragging a segment (EditCurveInfo.getOffsetSegPts)                      *)
(*                                                                         *)
(* The segment and the cursor lie on a line, so a point is one coordinate  *)
(* and the length of a vector is its absolute value.  Coordinates of the   *)
(* segment are whole numbers of 1/DragUnit, results are fractions          *)
(* <<numerator, denominator>> of that.  The click parameter is k/DragDen.     *)
(***************************************************************************)

\* The click parameters: eighths, all of them values of three decimals.
Eighths == 0 .. 8

DragDen == Cardinality(Eighths) - 1

DragUnit == DragDen * DragDen * DragDen

\* The anchors and handles of the segments dragged, in whole units:
\* <<start, start's right handle, end's left handle, end>>.
DragShapes == {<<0, 1, 2, 3>>, <<0, 2, 2, 4>>, <<1, 1, 3, 3>>}

\* The handle types of an end of the segment.
DragHandleTypes == {"FREE", "ALIGNED"}

\* The positions the cursor is dragged to, in 1/DragUnit.
DragTargets == {0, DragUnit, 2 * DragUnit + 1}

\* getBezierDataForSeg for a segment of DragShapes: each end is
\* [left handle, point, right handle, left type, right type].
DragSegPts(q, ty0, ty1) ==
    << [left |-> (2 * q[1] - q[2]) * DragUnit, co |-> q[1] * DragUnit,
        right |-> q[2] * DragUnit, lt |-> ty0, rt |-> ty0],
       [left |-> q[3] * DragUnit, co |-> q[4] * DragUnit,
        right |-> (2 * q[4] - q[3]) * DragUnit, lt |-> ty1, rt |-> ty1] >>

\* getPtFromT at t = k/DragDen for the segment, in 1/DragUnit.
DragPtAt(q, k) ==
    (DragDen - k) * (DragDen - k) * (DragDen - k) * q[1]
      + 3 * k * (DragDen - k) * (DragDen - k) * q[2]
      + 3 * k * k * (DragDen - k) * q[3]
      + k * k * k * q[4]

\* The weight of lines 3096-3103 as <<numerator, denominator>>.
DragWeight(k) ==
    LET wd == 16 * DragUnit
    IN  IF 6 * k <= DragDen THEN <<0, wd>>
        ELSE IF 2 * k <= DragDen
             THEN <<(6 * k - DragDen) * (6 * k - DragDen) * (6 * k - DragDen), wd>>
        ELSE IF 6 * k <= 5 * DragDen
             THEN LET x == 6 * (DragDen - k) - DragDen IN <<wd - x * x * x, wd>>
        ELSE <<wd, wd>>

\* The divisors of lines 3105 and 3106, times DragUnit.
DragDivisor0(k) == 3 * k * (DragDen - k) * (DragDen - k)

DragDivisor1(k) == 3 * k * k * (DragDen - k)

\* A mutant of DragDivisor0: the parameter is kept off the ends.
DragDivisor0Clamped(k) ==
    LET c == IF k = 0 THEN 1 ELSE IF k = DragDen THEN DragDen - 1 ELSE k
    IN  3 * c * (DragDen - c) * (DragDen - c)

\* The sign of a fraction with a positive denominator.
SignOf(f) == IF f[1] > 0 THEN 1 ELSE IF f[1] < 0 THEN -1 ELSE 0

\* getPtsAfterCtrlPtChange, lines 3052-3078, for an edited handle
\* (hdlIdx 0 or 2); the point's coordinates are fractions here.
getPtsAfterCtrlPtChange(pt, hdlIdx) ==
    IF pt.lt \in {"ALIGNED", "AUTO"} /\ pt.rt \in {"ALIGNED", "AUTO"}
    THEN LET hdl   == IF hdlIdx = 2 THEN pt.right ELSE pt.left
             \* diffV = hdl - co, both over the denominator of hdl
             diffV == <<hdl[1] * pt.co[2] - pt.co[1] * hdl[2], hdl[2] * pt.co[2]>>
             imp   == IF hdlIdx = 2 THEN pt.left ELSE pt.right
             oldN  == pt.co[1] * imp[2] - imp[1] * pt.co[2]
             oldL0 == <<IF oldN < 0 THEN -oldN ELSE oldN, pt.co[2] * imp[2]>>
             oldL  == IF oldL0[1] = 0 THEN <<DragUnit, 1>> ELSE oldL0
             moved == <<pt.co[1] * oldL[2] - SignOf(diffV) * oldL[1] * pt.co[2],
                        pt.co[2] * oldL[2]>>
         IN  IF SignOf(diffV) # 0
             THEN IF hdlIdx = 2
                  THEN [pt EXCEPT !.left = moved, !.lt = "ALIGNED", !.rt = "ALIGNED"]
                  ELSE [pt EXCEPT !.right = moved, !.lt = "ALIGNED", !.rt = "ALIGNED"]
             ELSE pt
    ELSE [pt EXCEPT !.lt = "FREE", !.rt = "FREE"]

\* A whole coordinate as a fraction.
Whole(pt) ==
    [pt EXCEPT !.left = <<pt.left, 1>>, !.co = <<pt.co, 1>>, !.right = <<pt.right, 1>>]

\* getOffsetSegPts, lines 3080-3123, with a click location set: the moved
\* segment points, and whether a division by zero raised.
getOffsetSegPts(pts, k, clickLoc, newPos) ==
    LET delta == newPos - clickLoc
        w     == DragWeight(k)
        d0    == DragDivisor0(k)
        d1    == DragDivisor1(k)
    IN  IF d0 = 0 \/ d1 = 0 THEN [raised |-> TRUE, pts |-> <<>>]
        ELSE LET \* offset = (numerator of the weight part / wd) / (d / DragUnit) * delta
                 off0 == <<(w[2] - w[1]) * delta, 16 * d0>>
                 off1 == <<w[1] * delta, 16 * d1>>
                 p0   == [Whole(pts[1]) EXCEPT
                            !.right = <<pts[1].right * off0[2] + off0[1], off0[2]>>]
                 p1   == [Whole(pts[2]) EXCEPT
                            !.left = <<pts[2].left * off1[2] + off1[1], off1[2]>>]
             IN  [raised |-> FALSE,
                  pts |-> <<getPtsAfterCtrlPtChange(p0, 2), getPtsAfterCtrlPtChange(p1, 0)>>]

\* A segment of the edited curve is selected; nothing is clicked yet.
InitDrag ==
    /\ \E q \in DragShapes, ty0 \in DragHandleTypes, ty1 \in DragHandleTypes :
          call = [op |-> "none", q |-> q, pts |-> DragSegPts(q, ty0, ty1),
                  t |-> <<>>, clickLoc |-> <<>>, newPos |-> <<>>, segPts |-> <<>>]
    /\ ret = None
    /\ curves = <<>>
    /\ orig = <<>>
    /\ NoSearch

\* setClickLocSafe(clickLoc), lines 2769-2778, for a click on the segment:
\* the location and its parameter are stored; a parameter below 0 or above
\* 1 would clear both, 0 and 1 are kept.
SetClickLocSafe ==
    /\ call.op = "none"
    /\ \E k \in Eighths :
          call' = [call EXCEPT !.op = "setClickLocSafe", !.t = <<k>>,
                               !.clickLoc = <<DragPtAt(call.q, k)>>]
    /\ UNCHANGED <<ret, curves, orig, searchPtsList, coFind, searchResult>>

\* The mouse moves with the button down: getOffsetSegPts(newPos), line 3522.
DragSeg ==
    /\ call.op \in {"setClickLocSafe", "getOffsetSegPts"}
    /\ \E newPos \in DragTargets :
          \E r \in {getOffsetSegPts(call.pts, call.t[1], call.clickLoc[1], newPos)} :
             /\ call' = [call EXCEPT !.op = "getOffsetSegPts", !.newPos = <<newPos>>,
                                     !.segPts = r.pts]
             /\ ret' = IF r.raised THEN "raised" ELSE "returned"
    /\ UNCHANGED <<curves, orig, searchPtsList, coFind, searchResult>>

NextDrag == SetClickLocSafe \/ DragSeg

SpecDrag == InitDrag /\ [][NextDrag]_vars

Dragged == "newPos" \in DOMAIN call /\ call.op = "getOffsetSegPts"

\* C28: for every click parameter setClickLocSafe can store, 0 and 1
\* included, and every new cursor position getOffsetSegPts returns the
\* moved segment points without an arithmetic failure.
C28_NeverDividesByZero == Dragged => ret # "raised"

\* What holds: a drag with the click parameter strictly between 0 and 1
\* returns the moved points.
C28_InteriorDragReturns ==
    (Dragged /\ call.t[1] > 0 /\ call.t[1] < DragDen) => ret # "raised"

\* The segment was clicked at its start and dragged.
C28_WitnessAtStart == Dragged /\ call.t[1] = 0 /\ ret = "raised"

(***************************************************************************)
(* The selections of the edit tool after a change of geometry              *)
(* (ModalFlexiEditBezierOp.updateAfterGeomChange)                          *)
(*                                                                         *)
(* One curve object, which exists or not; a spline is its point count and  *)
(* its cyclic flag.  A selection is [splineIdx, segIdx, ctrlIdx], segIdx   *)
(* and ctrlIdx being <<>> for None.  selectCurveInfos is a Python set of   *)
(* objects: the model keeps its members in a sequence (two of them may be  *)
(* equal) and lets every loop over it take any order.                      *)
(***************************************************************************)

\* The most points of a spline.
MaxSplinePts == 3

\* The most splines of the object.
MaxObjSplines == 2

\* The most selections held at a time.
MaxSelInfos == 2

SplineKinds == [n : 1 .. MaxSplinePts, cyc : BOOLEAN]

NoObj == [exists |-> FALSE, splines |-> <<>>]

\* The states an external edit, an undo or a redo can leave the object in.
ObjStates ==
    {NoObj} \cup {[exists |-> TRUE, splines |-> ss] :
                     ss \in UNION {[1 .. k -> SplineKinds] : k \in 1 .. MaxObjSplines}}

\* The control indices of the two end points of a segment (ctrlIdx % 3 = 1).
NodeCtrlIdxs == {1, 4}

\* SelectCurveInfo.getLastSegIdx, lines 2831-2835, on the point count.
getLastSegIdx(ptCnt, cyc) == IF cyc THEN ptCnt - 1 ELSE ptCnt - 2

\* A mutant of updateOne: the segment index is left as it is.
updateOneNoClamp(st, i) ==
    LET ci == st.sels[i] IN
    IF ~st.obj.exists THEN [st EXCEPT !.toRemove = @ \cup {i}]
    ELSE IF ci.splineIdx >= Len(st.obj.splines) THEN [st EXCEPT !.raised = TRUE]
    ELSE st

\* The body of the loop of updateAfterGeomChange for the selection at
\* position i, lines 3267-3285.
updateOne(st, i) ==
    LET ci      == st.sels[i]
        splines == st.obj.splines
    IN
    IF ~st.obj.exists THEN [st EXCEPT !.toRemove = @ \cup {i}]
    ELSE IF ci.splineIdx >= Len(splines) THEN [st EXCEPT !.raised = TRUE]
    ELSE LET spline == splines[ci.splineIdx + 1] IN
         IF spline.n = 1
         THEN IF Len(splines) = 1
              THEN [st EXCEPT !.toRemove = @ \cup {i}]
              ELSE LET rest == RemoveAt(splines, ci.splineIdx) IN
                   [st EXCEPT !.obj.splines = rest,
                              !.removedSpline = TRUE,
                              !.sels[i].splineIdx =
                                  IF ci.splineIdx >= Len(rest) THEN Len(rest) - 1 ELSE @]
         ELSE IF ci.segIdx # <<>> /\ ci.segIdx[1] >= spline.n - 1
              THEN [st EXCEPT !.sels[i].segIdx = <<getLastSegIdx(spline.n, spline.cyc)>>]
              ELSE st

RECURSIVE updateLoop(_, _, _)
updateLoop(st, order, k) ==
    IF k > Len(order) \/ st.raised THEN st
    ELSE updateLoop(updateOne(st, order[k]), order, k + 1)

\* The members of sels at the positions not in drop, in order.
RECURSIVE KeepSels(_, _, _)
KeepSels(sels, drop, i) ==
    IF i > Len(sels) THEN <<>>
    ELSE (IF i \in drop THEN <<>> ELSE <<sels[i]>>) \o KeepSels(sels, drop, i + 1)

\* updateAfterGeomChange, lines 3263-3290, its loop taking the selections
\* in the given order: [obj, sels, raised, removedSpline].  An exception in
\* the loop leaves the selections to remove in place.
updateAfterGeomChange(obj, sels, order) ==
    LET st == updateLoop([obj |-> obj, sels |-> sels, toRemove |-> {},
                          raised |-> FALSE, removedSpline |-> FALSE], order, 1)
    IN  [obj |-> st.obj,
         sels |-> IF st.raised THEN st.sels ELSE KeepSels(st.sels, st.toRemove, 1),
         raised |-> st.raised,
         removedSpline |-> st.removedSpline]

\* removeBezierPts(obj, splineIdx, {idx}), lines 217-236, on point counts.
removeBezierPt(obj, splineIdx, idx) ==
    LET spline == obj.splines[splineIdx + 1] IN
    IF idx >= spline.n THEN obj
    ELSE IF spline.n = 1
         THEN LET rest == RemoveAt(obj.splines, splineIdx)
              IN  IF rest = <<>> THEN NoObj ELSE [obj EXCEPT !.splines = rest]
         ELSE [obj EXCEPT !.splines[splineIdx + 1].n = @ - 1]

\* SelectCurveInfo.removeNode, lines 2911-2918, for a selected end point:
\* [obj, raised].  It raises when the selection's object, spline or
\* segment is gone.
removeNode(obj, ci) ==
    IF ci.ctrlIdx = <<>> THEN [obj |-> obj, raised |-> FALSE]
    ELSE IF ~obj.exists \/ ci.splineIdx >= Len(obj.splines) \/ ci.segIdx = <<>>
         THEN [obj |-> obj, raised |-> TRUE]
    ELSE LET spline == obj.splines[ci.splineIdx + 1]
             adj    == getAdjIdx(spline.n, spline.cyc, ci.segIdx[1], ci.ctrlIdx[1] \div 3)
         IN  IF adj = <<>> THEN [obj |-> obj, raised |-> TRUE]
             ELSE [obj |-> removeBezierPt(obj, ci.splineIdx, adj[1]), raised |-> FALSE]

\* The loop of the DEL key, line 3445; it ends at the first exception.
RECURSIVE removeNodes(_, _, _, _)
removeNodes(obj, sels, order, k) ==
    IF k > Len(order) THEN obj
    ELSE LET r == removeNode(obj, sels[order[k]])
         IN  IF r.raised THEN r.obj ELSE removeNodes(r.obj, sels, order, k + 1)

\* Whether a selection refers to an existing spline and segment.
RefersToExisting(obj, ci) ==
    /\ obj.exists
    /\ ci.splineIdx < Len(obj.splines)
    /\ ci.segIdx # <<>> =>
          /\ ci.segIdx[1] >= 0
          /\ ci.segIdx[1] <= LET spline == obj.splines[ci.splineIdx + 1]
                           IN  getLastSegIdx(spline.n, spline.cyc)

\* The tool has been started on an object of one open spline.
InitGeom ==
    /\ call = [op |-> "none",
               obj |-> [exists |-> TRUE,
                        splines |-> <<[n |-> MaxSplinePts, cyc |-> FALSE]>>],
               sels |-> <<>>, removedSpline |-> FALSE]
    /\ ret = None
    /\ curves = <<>>
    /\ orig = <<>>
    /\ NoSearch

\* A click on a segment, lines 3459-3482: the segment, or one of its end
\* points, is selected; with shift it is added to the selection.
SelectSeg ==
    /\ call.obj.exists
    /\ \E s \in 0 .. Len(call.obj.splines) - 1, shift \in BOOLEAN,
          ctrlIdx \in {<<>>} \cup {<<c>> : c \in NodeCtrlIdxs} :
          \E seg \in 0 .. getLastSegIdx(call.obj.splines[s + 1].n, call.obj.splines[s + 1].cyc) :
             LET ci == [splineIdx |-> s, segIdx |-> <<seg>>, ctrlIdx |-> ctrlIdx]
             IN  /\ shift => Len(call.sels) < MaxSelInfos
                 /\ call' = [call EXCEPT !.op = "select",
                                !.sels = IF shift THEN Append(@, ci) ELSE <<ci>>]
    /\ ret' = None
    /\ UNCHANGED <<curves, orig, searchPtsList, coFind, searchResult>>

\* The handler run on the changed object, in any order of the selections.
AfterChange(op, obj) ==
    \E order \in Orders(1 .. Len(call.sels)) :
       \E r \in {updateAfterGeomChange(obj, call.sels, order)} :
          /\ call' = [op |-> op, obj |-> r.obj, sels |-> r.sels,
                      removedSpline |-> r.removedSpline]
          /\ ret' = IF r.raised THEN "raised" ELSE "returned"

\* The DEL key, lines 3443-3449: every selected node is removed, and the
\* depsgraph handler runs.
DeleteNode ==
    /\ call.sels # <<>>
    /\ \E order \in Orders(1 .. Len(call.sels)) :
          AfterChange("removeNode", removeNodes(call.obj, call.sels, order, 1))
    /\ UNCHANGED <<curves, orig, searchPtsList, coFind, searchResult>>

\* An edit outside the tool, an undo or a redo, and the handler registered
\* for it (lines 3300-3302).
GeomChange ==
    /\ \E obj \in ObjStates : obj # call.obj /\ AfterChange("external", obj)
    /\ UNCHANGED <<curves, orig, searchPtsList, coFind, searchResult>>

NextGeom == SelectSeg \/ DeleteNode \/ GeomChange

SpecGeom == InitGeom /\ [][NextGeom]_vars

HandlerRan == "removedSpline" \in DOMAIN call /\ call.op \in {"removeNode", "external"}

\* C29: after updateAfterGeomChange has run, every selection kept refers
\* to the existing object, to a spline index below its spline count and,
\* when the segment index is set, to a segment that exists in that spline.
C29_SelectionsReferToExisting ==
    HandlerRan => \A i \in 1 .. Len(call.sels) : RefersToExisting(call.obj, call.sels[i])

\* What holds: when the handler returned and removed no spline itself,
\* every selection kept refers to an existing spline and segment.
C29_ValidWhenNoSplineRemoved ==
    (HandlerRan /\ ret = "returned" /\ ~call.removedSpline) =>
       \A i \in 1 .. Len(call.sels) : RefersToExisting(call.obj, call.sels[i])

\* The handler returned and a selection refers to a segment beyond the
\* spline it was moved to.
C29_WitnessStaleSegIdx ==
    /\ HandlerRan
    /\ ret = "returned"
    /\ \E i \in 1 .. Len(call.sels) :
          /\ call.sels[i].splineIdx < Len(call.obj.splines)
          /\ ~RefersToExisting(call.obj, call.sels[i])

(***************************************************************************)
(* The point buffer of the draw tool (ModalDrawBezierOp.modal)             *)
(*                                                                         *)
(* curvePts holds the location of each buffered point (the handles, which  *)
(* no branch of modal tests, are left out); clickT is whether the time of  *)
(* the last click is set.  Whether a release comes within DBL_CLK_DURN of  *)
(* the last click is decided by the clock, so both outcomes are taken.     *)
(***************************************************************************)

\* The most points buffered in a stroke.
MaxDrawPts == 4

\* The locations get3dLocWithSnap returns.
DrawLocs == {0, 1}

\* A mutant of afterBackSpace: the buffer is not emptied when one point is
\* left.
afterBackSpaceKeepsOne(st) ==
    IF Len(st.curvePts) > 0
    THEN [st EXCEPT !.curvePts = SubSeq(@, 1, Len(@) - 1)]
    ELSE st

\* initialize, lines 1728-1737, on the fields of the model.
initialize(st) ==
    [st EXCEPT !.curvePts = <<>>, !.clickT = FALSE, !.capture = FALSE, !.shift = FALSE]

\* The BACK_SPACE branch of modal, lines 1782-1789.
afterBackSpace(st) ==
    LET popped == IF Len(st.curvePts) > 0
                  THEN SubSeq(st.curvePts, 1, Len(st.curvePts) - 1)
                  ELSE st.curvePts
    IN  IF Len(popped) <= 1
        THEN [st EXCEPT !.curvePts = <<>>, !.capture = FALSE]
        ELSE [st EXCEPT !.curvePts = popped]

\* getPrevRefCo, lines 1951-1958: <<>> for None.
getPrevRefCo(st) ==
    IF Len(st.curvePts) > 0
    THEN IF st.capture THEN <<st.curvePts[Len(st.curvePts)]>>
         ELSE IF Len(st.curvePts) > 1 THEN <<st.curvePts[Len(st.curvePts) - 1]>>
         ELSE <<>>
    ELSE <<>>

\* invoke has run initialize.
InitModal ==
    /\ call = [op |-> "invoke", curvePts |-> <<>>, clickT |-> FALSE,
               capture |-> FALSE, shift |-> FALSE]
    /\ ret = None
    /\ curves = <<>>
    /\ orig = <<>>
    /\ NoSearch

\* An event outside the region (lines 1762-1765), or WINDOW_DEACTIVATE
\* (lines 1756-1760), which clears the modifier keys.
OutsideEvent ==
    /\ \E deactivate \in BOOLEAN :
          call' = [call EXCEPT !.op = "outside",
                               !.shift = IF deactivate THEN FALSE ELSE @]
    /\ UNCHANGED <<ret, curves, orig, searchPtsList, coFind, searchResult>>

\* RET or SPACE, lines 1772-1775: confirm saves the stroke and initializes.
ConfirmKey ==
    /\ call' = [initialize(call) EXCEPT !.op = "confirm"]
    /\ UNCHANGED <<ret, curves, orig, searchPtsList, coFind, searchResult>>

\* ESC, lines 1777-1780.
EscKey ==
    /\ call' = [initialize(call) EXCEPT !.op = "esc"]
    /\ UNCHANGED <<ret, curves, orig, searchPtsList, coFind, searchResult>>

\* BACK_SPACE released, lines 1782-1790.
BackSpaceKey ==
    /\ call' = [afterBackSpace(call) EXCEPT !.op = "backspace"]
    /\ UNCHANGED <<ret, curves, orig, searchPtsList, coFind, searchResult>>

\* A shift key pressed or released, lines 1796-1798.
ShiftKey ==
    /\ \E pressed \in BOOLEAN :
          call' = [call EXCEPT !.op = "shift", !.shift = pressed]
    /\ UNCHANGED <<ret, curves, orig, searchPtsList, coFind, searchResult>>

\* LEFTMOUSE pressed, lines 1818-1825.
MousePress ==
    /\ \E loc \in DrawLocs :
          call' = [call EXCEPT !.op = "press", !.capture = TRUE,
                     !.curvePts = IF Len(@) = 0 THEN <<loc>> ELSE @]
    /\ UNCHANGED <<ret, curves, orig, searchPtsList, coFind, searchResult>>

\* LEFTMOUSE released, lines 1827-1861.
MouseRelease ==
    /\ Len(call.curvePts) < MaxDrawPts
    /\ \E loc \in DrawLocs, quick \in BOOLEAN, dblClk \in BOOLEAN :
          LET st == [call EXCEPT !.capture = FALSE] IN
          IF Len(st.curvePts) = 0
          THEN call' = [st EXCEPT !.op = "release"]
          ELSE IF st.clickT /\ dblClk
          THEN call' = [initialize(st) EXCEPT !.op = "release"]
          ELSE LET l == IF quick THEN st.curvePts[Len(st.curvePts)] ELSE loc
               IN  call' = [st EXCEPT !.op = "release", !.clickT = TRUE,
                                      !.curvePts = Append(@, l)]
    /\ UNCHANGED <<ret, curves, orig, searchPtsList, coFind, searchResult>>

\* MOUSEMOVE, lines 1863-1876: the floating point follows the cursor; with
\* the button down only the handles of the last point change.
MouseMove ==
    /\ \E loc \in DrawLocs :
          call' = [call EXCEPT !.op = "move",
                     !.curvePts = IF Len(@) > 1 /\ ~call.capture
                                  THEN [@ EXCEPT ![Len(@)] = loc] ELSE @]
    /\ UNCHANGED <<ret, curves, orig, searchPtsList, coFind, searchResult>>

NextModal ==
    \/ OutsideEvent
    \/ ConfirmKey
    \/ EscKey
    \/ BackSpaceKey
    \/ ShiftKey
    \/ MousePress
    \/ MouseRelease
    \/ MouseMove

SpecModal == InitModal /\ [][NextModal]_vars

InModal == "capture" \in DOMAIN call

\* C30: after any sequence of handled events, whenever capture is false
\* the number of buffered curve points is never exactly 1: it is 0, or at
\* least 2 (so getPrevRefCo finds a reference point whenever the buffer is
\* not empty).
C30_NeverOnePointUncaptured ==
    (InModal /\ ~call.capture) =>
       /\ Len(call.curvePts) # 1
       /\ Len(call.curvePts) > 0 => getPrevRefCo(call) # <<>>

\* Two points were buffered and BACK_SPACE has emptied the buffer.
C30_WitnessBackSpace ==
    /\ InModal
    /\ call.op = "backspace"
    /\ ~call.capture
    /\ call.clickT
    /\ call.curvePts = <<>>

=============================================================================
